---- MODULE Spec2Model ----
(***************************************************************************)
(* FaceGuard-MVP: the enrollment route (POST /api/face/register), the      *)
(* authentication route (POST /api/face/authenticate), the in-memory rate  *)
(* limiter and the cosine matcher, modelled from the TypeScript sources.   *)
(*                                                                         *)
(* Node.js runs one handler at a time and switches handlers only at an     *)
(* `await`: every action below is one synchronous segment of a handler     *)
(* (from one await to the next) or one database operation.                 *)
(*                                                                         *)
(* Arithmetic is exact.  A cosine similarity dot/(sqrt(s1)*sqrt(s2)) is    *)
(* kept as its sign and its square as a reduced fraction, so comparisons   *)
(* between similarities and against the threshold are those of the real    *)
(* numbers; IEEE-754 rounding of the double computation is not modelled.   *)
(***************************************************************************)
EXTENDS Integers, Sequences, FiniteSets, TLC

VARIABLES
    now,             \* Date.now(), in milliseconds
    rateLimitStore,  \* error-handler.ts:220  Map<string, {count, resetTime}>
    users,           \* table User: the ids of the stored users
    faceData,        \* table FaceData, rows in insertion order
    authLog,         \* table AuthLog, rows in insertion order
    reg,             \* in-flight POST /api/face/register requests, per slot
    auth,            \* in-flight POST /api/face/authenticate requests, per slot
    rlCalls,         \* history of checkRateLimit: per key, the calls of the
                     \* current fixed window (observer, not read by the code)
    guardCall,       \* the latest direct call of detectSuspiciousActivity,
                     \* with its arguments and result (observer)
    simCall,         \* the latest direct call of calculateSimilarity, with
                     \* its arguments and outcome (observer)
    detector,        \* face-detection.ts:46-49  the fields of one FaceDetector
    loops,           \* the processFrame closures of the detector, in the
                     \* order startFrameLoop created them
    detection,       \* the latest argument handleResults gave the callback
    userEmail,       \* column User.email, per user id ("" for no row)
    usr,             \* in-flight requests of the users API, per slot
    deleted          \* the ids whose user.delete has committed (observer)

\* the state of the browser-side detector and of the users API
clientVars == <<simCall, detector, loops, detection>>
userVars == <<userEmail, usr, deleted>>

vars == <<now, rateLimitStore, users, faceData, authLog, reg, auth, rlCalls,
          guardCall, simCall, detector, loops, detection, userEmail, usr,
          deleted>>

----------------------------------------------------------------------------
(* Program constants *)

\* route.ts:247  checkRateLimit(ip, { maxRequests: 5, windowMs: 60000 })
MaxRequests == 5
WindowMs == 60000
\* error-handler.ts:274  embedding.length !== 234
EmbeddingLength == 234
\* face-detection.ts:354  AUTHENTICATION_THRESHOLD = 0.8, as the fraction 4/5
ThresholdNum == 4
ThresholdDen == 5
\* face-detection.ts:357  MIN_QUALITY_SCORE = 0.6, in hundredths
MinQualityScore == 60
\* error-handler.ts:307  userAgent.length < 10
MinUserAgentLength == 10

(* Bounds of the model *)

\* the clock advances MaxTicks times, by TickMs each time
TickMs == 30000
MaxTicks == 2
\* checkRateLimit calls recorded per key and window before the key pauses
MaxCallsPerWindow == 6
\* rows of FaceData present when the server starts (authenticate runs)
MaxGallery == 2
\* the longest of the short vectors given to calculateSimilarity
MaxShortLength == 2
\* the most landmarks MediaPipe reports for a face (refineLandmarks: true)
MaxLandmarks == 478
\* calls of startCamera on one detector
MaxLoops == 3

----------------------------------------------------------------------------
(* JavaScript values.  A number is finite (an integer here), +Infinity or  *)
(* NaN; null is what JSON.stringify writes for a non-finite number; "str"  *)
(* stands for any value that is not a number (a string element).           *)

Num(n) == [t |-> "num", v |-> n]
Infinity == [t |-> "inf", v |-> 1]
NaN == [t |-> "nan", v |-> 0]
Null == [t |-> "null", v |-> 0]
NotANumber == [t |-> "str", v |-> 0]

\* typeof x === 'number'
TypeofNumber(x) == x.t \in {"num", "inf", "nan"}

\* isNaN(x) for x a number
IsNaN(x) == x.t = "nan"

\* the numeric coercion `*` applies to an operand: null -> 0, a non-numeric
\* string -> NaN
ToNumber(x) ==
    CASE x.t = "null" -> Num(0)
      [] x.t = "str" -> NaN
      [] OTHER -> x

Sign(n) == IF n > 0 THEN 1 ELSE IF n < 0 THEN -1 ELSE 0

\* a * b on JavaScript numbers
JsMul(x, y) ==
    LET a == ToNumber(x)
        b == ToNumber(y)
    IN  CASE a.t = "nan" \/ b.t = "nan" -> NaN
          [] a.t = "num" /\ b.t = "num" -> Num(a.v * b.v)
          [] a.t = "inf" /\ b.t = "inf" -> [t |-> "inf", v |-> a.v * b.v]
          [] a.t = "inf" -> IF b.v = 0 THEN NaN
                            ELSE [t |-> "inf", v |-> a.v * Sign(b.v)]
          [] OTHER -> IF a.v = 0 THEN NaN
                      ELSE [t |-> "inf", v |-> b.v * Sign(a.v)]

\* a + b on JavaScript numbers
JsAdd(a, b) ==
    CASE a.t = "nan" \/ b.t = "nan" -> NaN
      [] a.t = "num" /\ b.t = "num" -> Num(a.v + b.v)
      [] a.t = "inf" /\ b.t = "inf" -> IF a.v = b.v THEN a ELSE NaN
      [] a.t = "inf" -> a
      [] OTHER -> b

----------------------------------------------------------------------------
(* Arrays.  An embedding of the program has 234 elements; the model keeps  *)
(* an array as its length and its leading elements (head), every element   *)
(* after the head being the number 0.                                      *)

Vec(n, h) == [isArray |-> TRUE, length |-> n, head |-> h]
NotAnArray == [isArray |-> FALSE, length |-> 0, head |-> <<>>]

\* arr[i], 0-based as in the source, for i < arr.length
At(arr, i) == IF i < Len(arr.head) THEN arr.head[i + 1] ELSE Num(0)

Max(a, b) == IF a >= b THEN a ELSE b
Min(a, b) == IF a <= b THEN a ELSE b

RECURSIVE Gcd(_, _)
Gcd(a, b) == IF b = 0 THEN a ELSE Gcd(b, a % b)

\* JSON.stringify(array): a non-finite number is written as null
StringifyElement(x) == IF x.t \in {"inf", "nan"} THEN Null ELSE x

\* The TEXT column FaceData.embedding.  route.ts:304 writes
\* JSON.stringify(faceEmbedding); Garbage is a text that is not JSON.
JsonStringify(arr) ==
    [json |-> TRUE, length |-> arr.length,
     head |-> [i \in 1..Len(arr.head) |-> StringifyElement(arr.head[i])]]
Garbage == [json |-> FALSE, length |-> 0, head |-> <<>>]

\* route.ts:66  JSON.parse(faceData.embedding): throws on a text that is
\* not JSON, else yields the array that was written
JsonParse(text) ==
    IF text.json
    THEN [threw |-> FALSE, value |-> Vec(text.length, text.head)]
    ELSE [threw |-> TRUE, value |-> NotAnArray]

----------------------------------------------------------------------------
(* Similarities.  [k |-> "num"] is the real number sgn * sqrt(num/den),    *)
(* with num/den a reduced fraction; "nan" and "inf" are the IEEE specials. *)

SimZero == [k |-> "num", sgn |-> 0, num |-> 0, den |-> 1]
SimOne == [k |-> "num", sgn |-> 1, num |-> 1, den |-> 1]
SimNaN == [k |-> "nan", sgn |-> 0, num |-> 0, den |-> 1]
SimInf(s) == [k |-> "inf", sgn |-> s, num |-> 1, den |-> 1]
\* the null of the nullable column AuthLog.similarity
SimNull == [k |-> "null", sgn |-> 0, num |-> 0, den |-> 1]

\* d / (sqrt(s1) * sqrt(s2)) for integers d, s1 > 0, s2 > 0
SimExact(d, s1, s2) ==
    LET g == Gcd(d * d, s1 * s2)
    IN  [k |-> "num", sgn |-> Sign(d), num |-> (d * d) \div g,
         den |-> (s1 * s2) \div g]

\* a > b on similarities (false when either is NaN)
SimGt(a, b) ==
    CASE a.k = "nan" \/ b.k = "nan" -> FALSE
      [] a.k = "inf" /\ b.k = "inf" -> a.sgn > b.sgn
      [] a.k = "inf" -> a.sgn = 1
      [] b.k = "inf" -> b.sgn = -1
      [] a.sgn # b.sgn -> a.sgn > b.sgn
      [] a.sgn = 1 -> a.num * b.den > b.num * a.den
      [] a.sgn = -1 -> a.num * b.den < b.num * a.den
      [] OTHER -> FALSE

\* a >= p/q for a fraction p/q > 0
SimGeFraction(a, p, q) ==
    CASE a.k = "nan" -> FALSE
      [] a.k = "inf" -> a.sgn = 1
      [] OTHER -> a.sgn = 1 /\ a.num * q * q >= p * p * a.den

\* face-detection.ts:342-344: the three reduce() sums over the first k
\* elements.  Past both heads every product is 0 * 0, which leaves each
\* sum as it is, so the sums are taken up to the longer head.
RECURSIVE DotProduct(_, _, _)
DotProduct(f1, f2, k) ==
    IF k = 0 THEN Num(0)
    ELSE JsAdd(DotProduct(f1, f2, k - 1), JsMul(At(f1, k - 1), At(f2, k - 1)))

RECURSIVE SumOfSquares(_, _)
SumOfSquares(f, k) ==
    IF k = 0 THEN Num(0)
    ELSE JsAdd(SumOfSquares(f, k - 1), JsMul(At(f, k - 1), At(f, k - 1)))

\* the quotient with the two Math.sqrt missing: dot / (s1 * s2)
QuotientNoSqrt(dot, s1, s2) ==
    CASE dot.t = "nan" \/ s1.t = "nan" \/ s2.t = "nan" -> SimNaN
      [] s1.t = "inf" \/ s2.t = "inf" ->
            IF dot.t = "inf" THEN SimNaN ELSE SimZero
      [] dot.t = "inf" -> SimInf(dot.v)
      [] OTHER -> SimExact(dot.v, s1.v * s1.v, s2.v * s2.v)

\* face-detection.ts:343-350  dotProduct / (magnitude1 * magnitude2), given
\* the dot product and the two sums of squares (neither of them 0), the
\* magnitudes being their square roots
Quotient(dot, s1, s2) ==
    CASE dot.t = "nan" \/ s1.t = "nan" \/ s2.t = "nan" -> SimNaN
      [] s1.t = "inf" \/ s2.t = "inf" ->
            IF dot.t = "inf" THEN SimNaN ELSE SimZero
      [] dot.t = "inf" -> SimInf(dot.v)
      [] OTHER -> SimExact(dot.v, s1.v, s2.v)

\* the function answering 0 for vectors of different lengths
calculateSimilarityZeroOnMismatch(features1, features2) ==
    IF features1.length # features2.length
    THEN [threw |-> FALSE, value |-> SimZero]
    ELSE LET k == Min(features1.length,
                      Max(Len(features1.head), Len(features2.head)))
             dotProduct == DotProduct(features1, features2, k)
             sq1 == SumOfSquares(features1, k)
             sq2 == SumOfSquares(features2, k)
         IN  IF sq1 = Num(0) \/ sq2 = Num(0)
             THEN [threw |-> FALSE, value |-> SimZero]
             ELSE [threw |-> FALSE, value |-> Quotient(dotProduct, sq1, sq2)]

\* face-detection.ts:337-351  FaceDetector.calculateSimilarity
calculateSimilarity(features1, features2) ==
    IF features1.length # features2.length
    THEN [threw |-> TRUE, value |-> SimNaN]
    ELSE LET k == Min(features1.length,
                      Max(Len(features1.head), Len(features2.head)))
             dotProduct == DotProduct(features1, features2, k)
             sq1 == SumOfSquares(features1, k)
             sq2 == SumOfSquares(features2, k)
         IN  IF sq1 = Num(0) \/ sq2 = Num(0)
             THEN [threw |-> FALSE, value |-> SimZero]
             ELSE [threw |-> FALSE, value |-> Quotient(dotProduct, sq1, sq2)]


----------------------------------------------------------------------------
(* The rate limiter (error-handler.ts:220-259) *)

\* the client keys of the model: one resolved address and the literal that
\* getClientIP returns when no address header is present
Keys == {"10.0.0.1", "unknown"}

NoEntry == [present |-> FALSE, count |-> 0, resetTime |-> 0]

\* route.ts:247  the configuration the register route passes
RegisterConfig == [maxRequests |-> MaxRequests, windowMs |-> WindowMs]

\* checkRateLimit with the exhaustion test off by one (> for >=)
checkRateLimitOffByOne(store, key, config, t) ==
    LET existing == store[key]
    IN  IF ~existing.present \/ existing.resetTime <= t
        THEN LET resetTime == t + config.windowMs
             IN  [store |-> [store EXCEPT ![key] =
                        [present |-> TRUE, count |-> 1, resetTime |-> resetTime]],
                  result |-> [allowed |-> TRUE,
                              remaining |-> config.maxRequests - 1,
                              resetTime |-> resetTime]]
        ELSE IF existing.count > config.maxRequests
        THEN [store |-> store,
              result |-> [allowed |-> FALSE, remaining |-> 0,
                          resetTime |-> existing.resetTime]]
        ELSE [store |-> [store EXCEPT ![key].count = existing.count + 1],
              result |-> [allowed |-> TRUE,
                          remaining |-> config.maxRequests - (existing.count + 1),
                          resetTime |-> existing.resetTime]]

\* checkRateLimit with the increment made on a copy of the entry and
\* never stored
checkRateLimitLostIncrement(store, key, config, t) ==
    LET existing == store[key]
    IN  IF ~existing.present \/ existing.resetTime <= t
        THEN LET resetTime == t + config.windowMs
             IN  [store |-> [store EXCEPT ![key] =
                        [present |-> TRUE, count |-> 1, resetTime |-> resetTime]],
                  result |-> [allowed |-> TRUE,
                              remaining |-> config.maxRequests - 1,
                              resetTime |-> resetTime]]
        ELSE IF existing.count >= config.maxRequests
        THEN [store |-> store,
              result |-> [allowed |-> FALSE, remaining |-> 0,
                          resetTime |-> existing.resetTime]]
        ELSE [store |-> store,
              result |-> [allowed |-> TRUE,
                          remaining |-> config.maxRequests - (existing.count + 1),
                          resetTime |-> existing.resetTime]]

\* checkRateLimit with the expiry test resetTime < now: a call at the very
\* end of a window is still judged by that window
checkRateLimitStrictExpiry(store, key, config, t) ==
    LET existing == store[key]
    IN  IF ~existing.present \/ existing.resetTime < t
        THEN LET resetTime == t + config.windowMs
             IN  [store |-> [store EXCEPT ![key] =
                        [present |-> TRUE, count |-> 1, resetTime |-> resetTime]],
                  result |-> [allowed |-> TRUE,
                              remaining |-> config.maxRequests - 1,
                              resetTime |-> resetTime]]
        ELSE IF existing.count >= config.maxRequests
        THEN [store |-> store,
              result |-> [allowed |-> FALSE, remaining |-> 0,
                          resetTime |-> existing.resetTime]]
        ELSE [store |-> [store EXCEPT ![key].count = existing.count + 1],
              result |-> [allowed |-> TRUE,
                          remaining |-> config.maxRequests - (existing.count + 1),
                          resetTime |-> existing.resetTime]]

\* checkRateLimit with the increment made before the test of the count: a
\* rejected call is counted too
checkRateLimitCountsRejected(store, key, config, t) ==
    LET existing == store[key]
    IN  IF ~existing.present \/ existing.resetTime <= t
        THEN LET resetTime == t + config.windowMs
             IN  [store |-> [store EXCEPT ![key] =
                        [present |-> TRUE, count |-> 1, resetTime |-> resetTime]],
                  result |-> [allowed |-> TRUE,
                              remaining |-> config.maxRequests - 1,
                              resetTime |-> resetTime]]
        ELSE IF existing.count >= config.maxRequests
        THEN [store |-> [store EXCEPT ![key].count = existing.count + 1],
              result |-> [allowed |-> FALSE, remaining |-> 0,
                          resetTime |-> existing.resetTime]]
        ELSE [store |-> [store EXCEPT ![key].count = existing.count + 1],
              result |-> [allowed |-> TRUE,
                          remaining |-> config.maxRequests - (existing.count + 1),
                          resetTime |-> existing.resetTime]]

\* error-handler.ts:229-259  checkRateLimit, at Date.now() = t: the map
\* after the call and the result returned
checkRateLimit(store, key, config, t) ==
    LET existing == store[key]
    IN  IF ~existing.present \/ existing.resetTime <= t
        THEN LET resetTime == t + config.windowMs
             IN  [store |-> [store EXCEPT ![key] =
                        [present |-> TRUE, count |-> 1, resetTime |-> resetTime]],
                  result |-> [allowed |-> TRUE,
                              remaining |-> config.maxRequests - 1,
                              resetTime |-> resetTime]]
        ELSE IF existing.count >= config.maxRequests
        THEN [store |-> store,
              result |-> [allowed |-> FALSE, remaining |-> 0,
                          resetTime |-> existing.resetTime]]
        ELSE [store |-> [store EXCEPT ![key].count = existing.count + 1],
              result |-> [allowed |-> TRUE,
                          remaining |-> config.maxRequests - (existing.count + 1),
                          resetTime |-> existing.resetTime]]

(* The observer of the limiter.  It keeps, per key, the fixed window the   *)
(* calls define on their own: a window opens with the first call for the   *)
(* key, lasts windowMs, and the first call at or after its end opens the   *)
(* next one.  calls and allowed count the calls of that window and those   *)
(* answered allowed=true; last is the latest call with its result and the   *)
(* table as it was before the call.                                        *)

NoWindow == [start |-> -1, calls |-> 0, allowed |-> 0]
NoCall == [made |-> FALSE, key |-> "", at |-> 0,
           before |-> [k \in Keys |-> NoEntry],
           result |-> [allowed |-> FALSE, remaining |-> 0, resetTime |-> 0]]

OpensWindow(w, t) == w.start = -1 \/ t >= w.start + WindowMs

Observe(obs, before, key, t, result) ==
    LET w == obs.win[key]
        one == IF result.allowed THEN 1 ELSE 0
    IN  [win |-> [obs.win EXCEPT ![key] =
                    IF OpensWindow(w, t)
                    THEN [start |-> t, calls |-> 1, allowed |-> one]
                    ELSE [start |-> w.start, calls |-> w.calls + 1,
                          allowed |-> w.allowed + one]],
         last |-> [made |-> TRUE, key |-> key, at |-> t, before |-> before,
                   result |-> result]]

\* a key makes at most MaxCallsPerWindow calls in one window
MayCall(key) ==
    \/ OpensWindow(rlCalls.win[key], now)
    \/ rlCalls.win[key].calls < MaxCallsPerWindow

----------------------------------------------------------------------------
(* The abuse guard's request classifier (error-handler.ts:222-227, 302-321) *)

\* a header value is a string, "" when the header is absent; x-forwarded-for
\* is kept split at its commas, <<>> when absent; a user agent is the
\* sequence of its characters
UpperCase == <<"A", "B", "C", "D", "E", "F", "G", "H", "I", "J", "K", "L", "M",
               "N", "O", "P", "Q", "R", "S", "T", "U", "V", "W", "X", "Y", "Z">>
LowerCase == <<"a", "b", "c", "d", "e", "f", "g", "h", "i", "j", "k", "l", "m",
               "n", "o", "p", "q", "r", "s", "t", "u", "v", "w", "x", "y", "z">>

\* the lower-case letter of every upper-case letter
LowerOf ==
    [c \in {UpperCase[i] : i \in 1..Len(UpperCase)} |->
        LowerCase[CHOOSE i \in 1..Len(UpperCase) : UpperCase[i] = c]]

ToLower(c) == IF c \in DOMAIN LowerOf THEN LowerOf[c] ELSE c

\* error-handler.ts:311-318
suspiciousPatterns ==
    { <<"b", "o", "t">>,
      <<"c", "r", "a", "w", "l", "e", "r">>,
      <<"s", "p", "i", "d", "e", "r">>,
      <<"s", "c", "r", "a", "p", "e", "r">>,
      <<"c", "u", "r", "l">>,
      <<"w", "g", "e", "t">> }

\* /pattern/i.test(text)
PatternTest(pattern, text) ==
    \E i \in 0..(Len(text) - Len(pattern)) :
        \A j \in 1..Len(pattern) : ToLower(text[i + j]) = pattern[j]

\* error-handler.ts:222-227  getClientIP
getClientIP(headers) ==
    LET first == IF Len(headers.forwardedFor) = 0 THEN ""
                 ELSE headers.forwardedFor[1]
    IN  IF first # "" THEN first
        ELSE IF headers.realIp # "" THEN headers.realIp
        ELSE IF headers.clientIp # "" THEN headers.clientIp
        ELSE "unknown"

\* detectSuspiciousActivity with patterns that have no /i flag
detectSuspiciousActivityCaseSensitive(ip, userAgent) ==
    IF ip = "" \/ ip = "unknown" THEN FALSE
    ELSE IF Len(userAgent) = 0 \/ Len(userAgent) < MinUserAgentLength THEN TRUE
    ELSE \E pattern \in suspiciousPatterns :
            \E i \in 0..(Len(userAgent) - Len(pattern)) :
                \A j \in 1..Len(pattern) : userAgent[i + j] = pattern[j]

\* detectSuspiciousActivity with the guard `ip === 'unknown'` alone
detectSuspiciousActivityUnknownOnly(ip, userAgent) ==
    IF ip = "unknown" THEN FALSE
    ELSE IF Len(userAgent) = 0 \/ Len(userAgent) < MinUserAgentLength THEN TRUE
    ELSE \E pattern \in suspiciousPatterns : PatternTest(pattern, userAgent)

\* error-handler.ts:302-321  detectSuspiciousActivity
detectSuspiciousActivity(ip, userAgent) ==
    IF ip = "" \/ ip = "unknown" THEN FALSE
    ELSE IF Len(userAgent) = 0 \/ Len(userAgent) < MinUserAgentLength THEN TRUE
    ELSE \E pattern \in suspiciousPatterns : PatternTest(pattern, userAgent)

Mozilla == <<"M", "o", "z", "i", "l", "l", "a", "/", "5", ".", "0">>
Curl == <<"c", "u", "r", "l", "/", "8", ".", "4", ".", "0">>

\* the request headers the model sends
RequestHeaders ==
    { [forwardedFor |-> <<"10.0.0.1", "172.16.0.9">>, realIp |-> "",
       clientIp |-> "", userAgent |-> Mozilla],
      [forwardedFor |-> <<>>, realIp |-> "", clientIp |-> "",
       userAgent |-> Mozilla],
      [forwardedFor |-> <<>>, realIp |-> "10.0.0.1", clientIp |-> "",
       userAgent |-> Curl],
      [forwardedFor |-> <<>>, realIp |-> "", clientIp |-> "10.0.0.1",
       userAgent |-> <<>>] }

\* no direct call of detectSuspiciousActivity has been made
NoGuardCall == [made |-> FALSE, ip |-> "", userAgent |-> <<>>, flagged |-> FALSE]

\* the arguments of the direct calls: client identifiers, among them the
\* empty one and the literal of getClientIP, and user agents made of a
\* word, or no word, inside a browser-like prefix and suffix or on its own
GuardIps == {"", "unknown", "10.0.0.1", "192.168.0.7"}

ToUpper(c) ==
    IF \E i \in 1..Len(LowerCase) : LowerCase[i] = c
    THEN UpperCase[CHOOSE i \in 1..Len(LowerCase) : LowerCase[i] = c]
    ELSE c

GuardWords ==
    suspiciousPatterns
    \cup {[i \in 1..Len(w) |-> ToUpper(w[i])] : w \in suspiciousPatterns}
    \cup {[i \in 1..Len(w) |-> IF i = 1 THEN ToUpper(w[i]) ELSE w[i]] :
             w \in suspiciousPatterns}
    \cup { <<>>, <<"S", "a", "f", "a", "r", "i">>, <<"b", "o">>,
           <<"w", "g", "e">>, <<"s", "p", "y", "d", "e", "r">>,
           <<"c", "u", "r", "1">> }

GuardAgents ==
    {prefix \o word \o suffix :
        prefix \in {<<>>, Mozilla \o <<" ">>},
        word \in GuardWords,
        suffix \in {<<>>, <<"/", "2">>}}

----------------------------------------------------------------------------
(* Validation of the register body (error-handler.ts:261-291) *)

Valid == [valid |-> TRUE, error |-> ""]
Invalid(msg) == [valid |-> FALSE, error |-> msg]

\* embedding.some(val => typeof val !== 'number'); the elements after the
\* head are numbers
SomeNotNumber(embedding) ==
    \E i \in 1..Len(embedding.head) : ~TypeofNumber(embedding.head[i])

\* error-handler.ts:261-279  validateFaceEmbedding
validateFaceEmbedding(embedding) ==
    IF ~embedding.isArray THEN Invalid("Face embedding must be an array")
    ELSE IF embedding.length = 0 THEN Invalid("Face embedding is empty")
    ELSE IF SomeNotNumber(embedding)
    THEN Invalid("Face embedding must contain only numbers")
    ELSE IF embedding.length # EmbeddingLength
    THEN Invalid("Invalid embedding length")
    ELSE Valid

\* error-handler.ts:281-291  validateQuality; a quality q is the number
\* 100 * q, so 1 is 100
validateQuality(quality) ==
    IF ~TypeofNumber(quality) THEN Invalid("Quality must be a number")
    ELSE IF \/ quality.t = "inf"
            \/ quality.t = "num" /\ (quality.v < 0 \/ quality.v > 100)
    THEN Invalid("Quality must be between 0 and 1")
    ELSE Valid

\* the gate with <= for <: the minimum itself is rejected
BelowMinQualityInclusive(quality) ==
    CASE quality.t = "num" -> quality.v <= MinQualityScore
      [] quality.t = "inf" -> quality.v < 0
      [] OTHER -> FALSE

\* route.ts:278  quality < FaceDetector.MIN_QUALITY_SCORE
BelowMinQuality(quality) ==
    CASE quality.t = "num" -> quality.v < MinQualityScore
      [] quality.t = "inf" -> quality.v < 0
      [] OTHER -> FALSE

----------------------------------------------------------------------------
(* State *)

Users == {"u1", "u2"}
\* the ids the database can hand out: those of Users and those user.create
\* generates (part_004:3, a fresh text id per row)
NewUserIds == {"n1", "n2"}
UserIds == Users \cup NewUserIds
\* the order in which the new ids are given out
LessId(m, n) == m = "n1" /\ n = "n2"
NoUser == "null"

RegSlots == {"r1", "r2"}
AuthSlots == {"a1"}

\* an AppError (error-handler.ts:18-28) with the details the factories of
\* error-handler.ts:84-109 attach; code "" is an error that is no AppError
NoError == [thrown |-> FALSE, code |-> "", statusCode |-> 0, message |-> "",
            field |-> "", resetTime |-> 0]
AppError(message, code, statusCode) ==
    [thrown |-> TRUE, code |-> code, statusCode |-> statusCode,
     message |-> message, field |-> "", resetTime |-> 0]
createValidationError(message, field) ==
    [AppError(message, "VALIDATION_ERROR", 400) EXCEPT !.field = field]
createNotFoundError(resource) ==
    AppError("not found", "NOT_FOUND", 404)
createRateLimitError(resetTime) ==
    [AppError("too many requests", "RATE_LIMIT_EXCEEDED", 429)
        EXCEPT !.resetTime = resetTime]
OtherError == [thrown |-> TRUE, code |-> "", statusCode |-> 0,
               message |-> "rejected", field |-> "", resetTime |-> 0]

\* the JSON body and status of a register response; resetTime is Null in a
\* body that has no such key
NoRegResponse == [status |-> 0, success |-> FALSE, error |-> "", faceId |-> 0,
                  resetTime |-> Null]

\* route.ts:259  the local `body` before request.json() has resolved
NoBody == [malformed |-> FALSE, userId |-> [isString |-> FALSE, s |-> ""],
           faceEmbedding |-> NotAnArray, quality |-> Null]

\* the locals of one run of the register handler: ip and userAgent
\* (route.ts:237-238), body and its parts (route.ts:259-260), the id of the
\* row created, the error caught and the response; counted observes
\* whether the run has called checkRateLimit
IdleReg == [pc |-> "idle", ip |-> "", userAgent |-> <<>>, counted |-> FALSE,
            body |-> NoBody, userId |-> "",
            faceEmbedding |-> NotAnArray, quality |-> Null, faceId |-> 0,
            error |-> NoError, response |-> NoRegResponse]
\* route.ts:54-62  the running best of the gallery scan
NoMatch == [user |-> NoUser, similarity |-> SimZero, faceDataId |-> 0]

\* the JSON body and status of an authenticate response; a decision is a
\* response of status 200
Threshold == [num |-> ThresholdNum, den |-> ThresholdDen]
NoThreshold == [num |-> 0, den |-> 1]
NoAuthResponse == [status |-> 0, success |-> FALSE, user |-> NoUser,
                   similarity |-> SimNull, threshold |-> NoThreshold,
                   message |-> ""]

\* decided and writes observe the run of the handler: which decision it
\* computed ("none", "empty", "scan") and the outcome of each
\* authLog.create it awaited; deletedAtStart observes the users deleted
\* before the handler ran
IdleAuth == [pc |-> "idle", deletedAtStart |-> {}, faceEmbedding |-> NotAnArray,
             scanned |-> <<>>, bestMatch |-> NoMatch, isAuthenticated |-> FALSE,
             decided |-> "none", writes |-> <<>>, response |-> NoAuthResponse]

\* no call of calculateSimilarity yet
NoSimCall == [made |-> FALSE, features1 |-> NotAnArray,
              features2 |-> NotAnArray, threw |-> FALSE, value |-> SimNaN]

\* face-detection.ts:46-49  the fields of a FaceDetector after construction;
\* camera is "null" or the object { isActive: true }
NewDetector == [faceMesh |-> FALSE, camera |-> "null",
                isInitialized |-> FALSE, onResultsCallback |-> FALSE]

\* nothing handed to the callback yet
NoDetection == [made |-> FALSE, isNull |-> TRUE, quality |-> 0,
                features |-> 0]

\* part_004:2-8  the e-mail addresses of the users found at start
StoredEmails == [u \in UserIds |-> CASE u = "u1" -> "a@x.io"
                                      [] u = "u2" -> "b@x.io"
                                      [] OTHER -> ""]

\* the JSON body and status of a users-API response
NoUsrResponse == [status |-> 0, success |-> FALSE, id |-> NoUser]

\* the locals of one run of a users-API handler: the route (op), the id of
\* the path, the body, the sanitized email ("" for none) and whether a
\* name goes into the write, existingUser.email; conflict observes that the write was
\* refused by the unique index, created is the id of the row inserted
UsrSlots == {"s1", "s2"}
NoUsrBody == [malformed |-> FALSE,
              name |-> [defined |-> FALSE, s |-> "", wrap |-> ""],
              email |-> [defined |-> FALSE, s |-> "", wrap |-> ""]]
IdleUsr == [pc |-> "idle", op |-> "", id |-> NoUser, body |-> NoUsrBody,
            email |-> "", hasName |-> FALSE, existingEmail |-> "", conflict |-> FALSE,
            created |-> NoUser, response |-> NoUsrResponse]

InitMemory ==
    /\ now = 0
    /\ rateLimitStore = [k \in Keys |-> NoEntry]
    /\ rlCalls = [win |-> [k \in Keys |-> NoWindow], last |-> NoCall]
    /\ reg = [r \in RegSlots |-> IdleReg]
    /\ auth = [a \in AuthSlots |-> IdleAuth]
    /\ guardCall = NoGuardCall
    /\ simCall = NoSimCall
    /\ detector = NewDetector
    /\ loops = <<>>
    /\ detection = NoDetection
    /\ userEmail = StoredEmails
    /\ usr = [s \in UsrSlots |-> IdleUsr]
    /\ deleted = {}

\* time passes
Tick ==
    /\ now + TickMs <= MaxTicks * TickMs
    /\ now' = now + TickMs
    /\ UNCHANGED <<rateLimitStore, users, faceData, authLog, reg, auth, rlCalls, guardCall,
                   clientVars, userVars>>

\* one call checkRateLimit(key, { maxRequests: 5, windowMs: 60000 })
CallCheckRateLimit(key) ==
    /\ MayCall(key)
    /\ LET r == checkRateLimit(rateLimitStore, key, RegisterConfig, now)
       IN  /\ rateLimitStore' = r.store
           /\ rlCalls' = Observe(rlCalls, rateLimitStore, key, now, r.result)
    /\ UNCHANGED <<now, users, faceData, authLog, reg, auth, guardCall,
                   clientVars, userVars>>

\* one call detectSuspiciousActivity(ip, userAgent, endpoint)
CallDetectSuspiciousActivity(ip, userAgent) ==
    /\ guardCall' = [made |-> TRUE, ip |-> ip, userAgent |-> userAgent,
                     flagged |-> detectSuspiciousActivity(ip, userAgent)]
    /\ UNCHANGED <<now, rateLimitStore, users, faceData, authLog, reg, auth,
                   rlCalls,
                   clientVars, userVars>>

\* the vectors given to calculateSimilarity: every length up to
\* MaxShortLength and the length of an embedding, over a few elements
SimElements == {Num(0), Num(3), Num(4)}
SimLengths == (0..MaxShortLength) \cup {EmbeddingLength}
SimHeads(n) == [1..Min(n, 2) -> SimElements]
SimVectors == UNION {{Vec(n, h) : h \in SimHeads(n)} : n \in SimLengths}

\* one call FaceDetector.calculateSimilarity(features1, features2)
CallCalculateSimilarity(features1, features2) ==
    /\ LET r == calculateSimilarity(features1, features2)
       IN  simCall' = [made |-> TRUE, features1 |-> features1,
                       features2 |-> features2, threw |-> r.threw,
                       value |-> r.value]
    /\ UNCHANGED <<now, rateLimitStore, users, faceData, authLog, reg, auth,
                   rlCalls, guardCall, detector, loops, detection, userVars>>

----------------------------------------------------------------------------
(* POST /api/face/register (route.ts:235-401) *)

\* the bodies the model sends; userId "" is an absent id
GoodEmbedding == Vec(EmbeddingLength, <<Num(3), Num(4)>>)
RegBody(userId, embedding, quality) ==
    [malformed |-> FALSE, userId |-> [isString |-> TRUE, s |-> userId],
     faceEmbedding |-> embedding, quality |-> quality]
RegisterBodies ==
    { RegBody("u1", GoodEmbedding, Num(70)),
      RegBody("u1", Vec(EmbeddingLength, <<Infinity, Num(4)>>), Num(60)),
      RegBody("u2", GoodEmbedding, Num(70)),
      RegBody("", GoodEmbedding, Num(70)),
      RegBody("u1", Vec(EmbeddingLength - 1, <<Num(3), Num(4)>>), Num(70)),
      RegBody("u1", Vec(EmbeddingLength, <<Num(3), NotANumber>>), Num(70)),
      RegBody("u1", Vec(0, <<>>), Num(70)),
      RegBody("u1", NotAnArray, Num(70)),
      RegBody("u1", GoodEmbedding, Num(55)),
      RegBody("u1", GoodEmbedding, Num(150)),
      RegBody("u1", GoodEmbedding, NotANumber),
      RegBody("u1", GoodEmbedding, Num(60)),
      RegBody("u1", GoodEmbedding, Num(59)),
      RegBody("u1", GoodEmbedding, Num(-1)),
      RegBody("u1", GoodEmbedding, Infinity),
      RegBody("u1", GoodEmbedding, Null),
      [RegBody("u1", GoodEmbedding, Num(70)) EXCEPT !.userId.isString = FALSE],
      [RegBody("u1", Vec(EmbeddingLength - 1, <<Num(3), Num(4)>>), Num(70))
          EXCEPT !.userId.isString = FALSE],
      RegBody("u2", Vec(EmbeddingLength - 1, <<Num(3), Num(4)>>), Num(55)),
      [RegBody("u1", GoodEmbedding, Num(70)) EXCEPT !.malformed = TRUE] }

\* route.ts:350-400  the catch block: the response for a thrown error
RegErrorResponse(error) ==
    IF error.code # ""
    THEN [status |-> error.statusCode, success |-> FALSE,
          error |-> error.message, faceId |-> 0, resetTime |-> Null]
    ELSE [status |-> 500, success |-> FALSE,
          error |-> "registration failed", faceId |-> 0, resetTime |-> Null]

RegThrow(slot, error) ==
    [slot EXCEPT !.pc = "done", !.error = error,
                 !.response = RegErrorResponse(error)]

\* the checks on the parsed body with the embedding validated before the
\* user id
RegBodyErrorEmbeddingFirst(body) ==
    LET faceValidation == validateFaceEmbedding(body.faceEmbedding)
        qualityValidation == validateQuality(body.quality)
    IN  IF ~faceValidation.valid
        THEN createValidationError(faceValidation.error, "faceEmbedding")
        ELSE IF body.userId.s = "" \/ ~body.userId.isString
        THEN createValidationError("user id required", "userId")
        ELSE IF ~qualityValidation.valid
        THEN createValidationError(qualityValidation.error, "quality")
        ELSE IF BelowMinQuality(body.quality)
        THEN createValidationError("quality below minimum 60%", "quality")
        ELSE NoError

\* route.ts:262-283  the checks on the parsed body, in the order of the
\* source: the first error thrown, or NoError
RegBodyError(body) ==
    LET faceValidation == validateFaceEmbedding(body.faceEmbedding)
        qualityValidation == validateQuality(body.quality)
    IN  IF body.userId.s = "" \/ ~body.userId.isString
        THEN createValidationError("user id required", "userId")
        ELSE IF ~faceValidation.valid
        THEN createValidationError(faceValidation.error, "faceEmbedding")
        ELSE IF ~qualityValidation.valid
        THEN createValidationError(qualityValidation.error, "quality")
        ELSE IF BelowMinQuality(body.quality)
        THEN createValidationError("quality below minimum 60%", "quality")
        ELSE NoError

\* route.ts:236-259  from the arrival of the request to `await
\* request.json()`: the suspicious-activity check and the rate limit run
\* without an await between them
RegStart(r, headers) ==
    LET ip == getClientIP(headers)
        rl == checkRateLimit(rateLimitStore, ip, RegisterConfig, now)
        arrived == [reg[r] EXCEPT !.ip = ip, !.userAgent = headers.userAgent]
        counted == [arrived EXCEPT !.counted = TRUE]
    IN  /\ reg[r].pc = "idle"
        /\ IF detectSuspiciousActivity(ip, headers.userAgent)
           THEN /\ reg' = [reg EXCEPT ![r] = RegThrow(arrived,
                        AppError("Suspicious activity detected",
                                 "SECURITY_VIOLATION", 403))]
                /\ UNCHANGED <<rateLimitStore, rlCalls>>
           ELSE /\ MayCall(ip)
                /\ rateLimitStore' = rl.store
                /\ rlCalls' = Observe(rlCalls, rateLimitStore, ip, now, rl.result)
                /\ reg' = [reg EXCEPT ![r] =
                        IF ~rl.result.allowed
                        THEN RegThrow(counted,
                                      createRateLimitError(rl.result.resetTime))
                        ELSE [counted EXCEPT !.pc = "json"]]
        /\ UNCHANGED <<now, users, faceData, authLog, auth, guardCall,
                   clientVars, userVars>>

\* the handler giving the quota back when it rejects the body: the count
\* of the key is decremented on a validation error
RegValidateRefund(r, body) ==
    /\ reg[r].pc = "json"
    /\ reg' = [reg EXCEPT ![r] =
            IF body.malformed THEN RegThrow(@, OtherError)
            ELSE IF RegBodyError(body).thrown
            THEN RegThrow([@ EXCEPT !.body = body], RegBodyError(body))
            ELSE [@ EXCEPT !.pc = "findUnique", !.body = body,
                           !.userId = body.userId.s,
                           !.faceEmbedding = body.faceEmbedding,
                           !.quality = body.quality]]
    /\ rateLimitStore' =
            IF ~body.malformed /\ RegBodyError(body).thrown
            THEN [rateLimitStore EXCEPT ![reg[r].ip].count = @ - 1]
            ELSE rateLimitStore
    /\ UNCHANGED <<now, users, faceData, authLog, auth, rlCalls, guardCall,
                   clientVars, userVars>>

\* route.ts:259-283  request.json() resolves (or rejects on a body that is
\* not JSON) and the body is validated, up to `await user.findUnique`
RegValidate(r, body) ==
    /\ reg[r].pc = "json"
    /\ reg' = [reg EXCEPT ![r] =
            IF body.malformed THEN RegThrow(@, OtherError)
            ELSE IF RegBodyError(body).thrown
            THEN RegThrow([@ EXCEPT !.body = body], RegBodyError(body))
            ELSE [@ EXCEPT !.pc = "findUnique", !.body = body,
                           !.userId = body.userId.s,
                           !.faceEmbedding = body.faceEmbedding,
                           !.quality = body.quality]]
    /\ UNCHANGED <<now, rateLimitStore, users, faceData, authLog, auth, rlCalls, guardCall,
                   clientVars, userVars>>

\* the FaceData rows of a user (the relation `faceData` of the include)
FaceDataOf(userId) ==
    {i \in 1..Len(faceData) : faceData[i].userId = userId}

\* the handler without the check of existingUser.faceData.length
RegFindUniqueNoPriorCheck(r, ok) ==
    /\ reg[r].pc = "findUnique"
    /\ reg' = [reg EXCEPT ![r] =
            IF ~ok THEN RegThrow(@, OtherError)
            ELSE IF reg[r].userId \notin users
            THEN RegThrow(@, createNotFoundError("user"))
            ELSE [@ EXCEPT !.pc = "createFace"]]
    /\ UNCHANGED <<now, rateLimitStore, users, faceData, authLog, auth, rlCalls,
                   guardCall,
                   clientVars, userVars>>

\* route.ts:285-298  user.findUnique({ include: { faceData: true } })
\* answers (ok) or rejects, and the two checks on its answer
RegFindUnique(r, ok) ==
    /\ reg[r].pc = "findUnique"
    /\ reg' = [reg EXCEPT ![r] =
            IF ~ok THEN RegThrow(@, OtherError)
            ELSE IF reg[r].userId \notin users
            THEN RegThrow(@, createNotFoundError("user"))
            ELSE IF Cardinality(FaceDataOf(reg[r].userId)) > 0
            THEN RegThrow(@, AppError("face data already registered",
                                      "RESOURCE_ALREADY_EXISTS", 409))
            ELSE [@ EXCEPT !.pc = "createFace"]]
    /\ UNCHANGED <<now, rateLimitStore, users, faceData, authLog, auth, rlCalls, guardCall,
                   clientVars, userVars>>

\* the row faceData.create inserts (route.ts:301-307); the table of the
\* migration (part_004:11-18) constrains only the foreign key userId
NewFaceData(slot) ==
    [id |-> Len(faceData) + 1, userId |-> slot.userId,
     embedding |-> JsonStringify(slot.faceEmbedding), quality |-> slot.quality]

\* route.ts:300-307  faceData.create inserts the row, or rejects
RegCreateFace(r, ok) ==
    /\ reg[r].pc = "createFace"
    /\ IF ok /\ reg[r].userId \in users
       THEN /\ faceData' = Append(faceData, NewFaceData(reg[r]))
            /\ reg' = [reg EXCEPT ![r].pc = "createLog",
                                  ![r].faceId = Len(faceData) + 1]
       ELSE /\ reg' = [reg EXCEPT ![r] = RegThrow(@, OtherError)]
            /\ UNCHANGED faceData
    /\ UNCHANGED <<now, rateLimitStore, users, authLog, auth, rlCalls, guardCall,
                   clientVars, userVars>>

\* route.ts:309-348  authLog.create inserts the success record, or
\* rejects; then the success response
RegCreateLog(r, ok) ==
    /\ reg[r].pc = "createLog"
    /\ IF ok
       THEN /\ authLog' = Append(authLog,
                    [userId |-> reg[r].userId, success |-> TRUE,
                     similarity |-> SimNull, by |-> r])
            /\ reg' = [reg EXCEPT ![r].pc = "done",
                         ![r].response = [status |-> 200, success |-> TRUE,
                                          error |-> "", faceId |-> reg[r].faceId,
                                          resetTime |-> Null]]
       ELSE /\ reg' = [reg EXCEPT ![r] = RegThrow(@, OtherError)]
            /\ UNCHANGED authLog
    /\ UNCHANGED <<now, rateLimitStore, users, faceData, auth, rlCalls, guardCall,
                   clientVars, userVars>>

\* the response has been sent; the next request of the client arrives
RegNext(r) ==
    /\ reg[r].pc = "done"
    /\ reg' = [reg EXCEPT ![r] = IdleReg]
    /\ UNCHANGED <<now, rateLimitStore, users, faceData, authLog, auth, rlCalls, guardCall,
                   clientVars, userVars>>

----------------------------------------------------------------------------
(* POST /api/face/authenticate (route.ts:6-137) *)

\* error-handler.ts:189-193  isValidFaceEmbedding; the elements after the
\* head are the number 0
isValidFaceEmbedding(embedding) ==
    /\ embedding.isArray
    /\ embedding.length > 0
    /\ \A i \in 1..Len(embedding.head) :
           TypeofNumber(embedding.head[i]) /\ ~IsNaN(embedding.head[i])

\* the loop body with >= for >: the last entry at a tie wins
ScanEntryLastWins(bestMatch, row, faceEmbedding) ==
    LET parsed == JsonParse(row.embedding)
        compared == calculateSimilarity(faceEmbedding, parsed.value)
    IN  IF parsed.threw \/ compared.threw THEN bestMatch
        ELSE IF \/ SimGt(compared.value, bestMatch.similarity)
                \/ compared.value = bestMatch.similarity
        THEN [user |-> row.userId, similarity |-> compared.value,
              faceDataId |-> row.id]
        ELSE bestMatch

\* route.ts:64-87  the body of the scan loop for one row: the running best
\* after the row
ScanEntry(bestMatch, row, faceEmbedding) ==
    LET parsed == JsonParse(row.embedding)
        compared == calculateSimilarity(faceEmbedding, parsed.value)
    IN  IF parsed.threw \/ compared.threw THEN bestMatch
        ELSE IF SimGt(compared.value, bestMatch.similarity)
        THEN [user |-> row.userId, similarity |-> compared.value,
              faceDataId |-> row.id]
        ELSE bestMatch

\* whether row n makes JSON.parse or calculateSimilarity throw
RowThrows(allFaceData, faceEmbedding, n) ==
    LET parsed == JsonParse(allFaceData[n].embedding)
    IN  parsed.threw \/ calculateSimilarity(faceEmbedding, parsed.value).threw

\* the scan with the try/catch around the loop instead of inside it: the
\* first row that throws ends the scan
RECURSIVE ScanRowsAbortOnThrow(_, _, _)
ScanRowsAbortOnThrow(allFaceData, faceEmbedding, n) ==
    IF n = 0 THEN NoMatch
    ELSE IF \E j \in 1..n : RowThrows(allFaceData, faceEmbedding, j)
    THEN ScanRowsAbortOnThrow(allFaceData, faceEmbedding, n - 1)
    ELSE ScanEntry(ScanRowsAbortOnThrow(allFaceData, faceEmbedding, n - 1),
                   allFaceData[n], faceEmbedding)

\* route.ts:53-87  the scan of the first n rows of allFaceData
RECURSIVE ScanRows(_, _, _)
ScanRows(allFaceData, faceEmbedding, n) ==
    IF n = 0 THEN NoMatch
    ELSE ScanEntry(ScanRows(allFaceData, faceEmbedding, n - 1),
                   allFaceData[n], faceEmbedding)

GalleryScan(allFaceData, faceEmbedding) ==
    ScanRows(allFaceData, faceEmbedding, Len(allFaceData))

\* the threshold test with > for >=
IsAuthenticatedStrict(bestMatch) ==
    /\ bestMatch.similarity.sgn = 1
    /\ bestMatch.similarity.num * ThresholdDen * ThresholdDen
          > ThresholdNum * ThresholdNum * bestMatch.similarity.den

\* route.ts:90  bestMatch.similarity >= FaceDetector.AUTHENTICATION_THRESHOLD
IsAuthenticated(bestMatch) ==
    SimGeFraction(bestMatch.similarity, ThresholdNum, ThresholdDen)

\* the decision with the nearest identity returned whatever the outcome
DecisionResponseDisclosing(isAuthenticated, bestMatch) ==
    [status |-> 200, success |-> isAuthenticated,
     user |-> bestMatch.user,
     similarity |-> bestMatch.similarity,
     threshold |-> Threshold,
     message |-> IF isAuthenticated /\ bestMatch.user # NoUser
                 THEN "authenticated" ELSE "below threshold"]

\* route.ts:102-114  the decision returned after the scan
DecisionResponse(isAuthenticated, bestMatch) ==
    [status |-> 200, success |-> isAuthenticated,
     user |-> IF isAuthenticated /\ bestMatch.user # NoUser
              THEN bestMatch.user ELSE NoUser,
     similarity |-> bestMatch.similarity,
     threshold |-> Threshold,
     message |-> IF isAuthenticated /\ bestMatch.user # NoUser
                 THEN "authenticated" ELSE "below threshold"]

\* route.ts:42-50  the decision returned on an empty gallery
EmptyGalleryResponse ==
    [status |-> 200, success |-> FALSE, user |-> NoUser,
     similarity |-> SimZero, threshold |-> Threshold,
     message |-> "no registered users"]

\* the audit record naming the nearest identity whatever the outcome
DecisionRecordNamingNearest(isAuthenticated, bestMatch, a) ==
    [userId |-> bestMatch.user,
     success |-> isAuthenticated, similarity |-> bestMatch.similarity,
     by |-> a]

\* route.ts:93-99  the audit record of a decision
DecisionRecord(isAuthenticated, bestMatch, a) ==
    [userId |-> IF isAuthenticated THEN bestMatch.user ELSE NoUser,
     success |-> isAuthenticated, similarity |-> bestMatch.similarity,
     by |-> a]

AuthErrorResponse(status, message) ==
    [NoAuthResponse EXCEPT !.status = status, !.message = message]

\* the probes and bodies the model sends
Probe(length, a, b) == [malformed |-> FALSE, faceEmbedding |-> Vec(length, <<a, b>>)]
AuthBodies ==
    { Probe(EmbeddingLength, Num(3), Num(4)),
      Probe(EmbeddingLength, Num(3), Num(0)),
      Probe(EmbeddingLength, Num(0), Num(0)),
      Probe(EmbeddingLength, Infinity, Num(4)),
      Probe(EmbeddingLength - 1, Num(3), Num(4)),
      Probe(EmbeddingLength, Num(3), NotANumber),
      [malformed |-> FALSE, faceEmbedding |-> Vec(0, <<>>)],
      [malformed |-> FALSE, faceEmbedding |-> NotAnArray],
      [malformed |-> TRUE, faceEmbedding |-> NotAnArray] }

\* route.ts:8-17  request.json() resolves, or rejects on a body that is
\* not JSON, and the probe is validated, up to `await faceData.findMany`
AuthStart(a, body) ==
    /\ auth[a].pc = "idle"
    /\ auth' = [auth EXCEPT ![a] =
            IF body.malformed
            THEN [@ EXCEPT !.pc = "errorLog", !.deletedAtStart = deleted]
            ELSE IF ~isValidFaceEmbedding(body.faceEmbedding)
            THEN [@ EXCEPT !.pc = "done", !.deletedAtStart = deleted,
                     !.faceEmbedding = body.faceEmbedding,
                     !.response = AuthErrorResponse(400, "valid embedding required")]
            ELSE [@ EXCEPT !.pc = "findMany", !.deletedAtStart = deleted,
                           !.faceEmbedding = body.faceEmbedding]]
    /\ UNCHANGED <<now, rateLimitStore, users, faceData, authLog, reg, rlCalls, guardCall,
                   clientVars, userVars>>

\* route.ts:19-90  faceData.findMany answers with the rows (or rejects),
\* and the scan and the threshold test run on the answer, up to the
\* `await authLog.create` of the branch taken
AuthFindMany(a, ok) ==
    /\ auth[a].pc = "findMany"
    /\ auth' = [auth EXCEPT ![a] =
            IF ~ok THEN [@ EXCEPT !.pc = "errorLog"]
            ELSE IF Len(faceData) = 0
            THEN [@ EXCEPT !.pc = "emptyLog", !.decided = "empty"]
            ELSE LET bestMatch == GalleryScan(faceData, auth[a].faceEmbedding)
                 IN  [@ EXCEPT !.pc = "decisionLog", !.decided = "scan",
                               !.scanned = faceData,
                               !.bestMatch = bestMatch,
                               !.isAuthenticated = IsAuthenticated(bestMatch)]]
    /\ UNCHANGED <<now, rateLimitStore, users, faceData, authLog, reg, rlCalls, guardCall,
                   clientVars, userVars>>

\* route.ts:32-51  the empty-gallery branch: authLog.create, then the
\* decision; a rejected create is thrown to the catch block
AuthEmptyLog(a, ok) ==
    /\ auth[a].pc = "emptyLog"
    /\ IF ok
       THEN /\ authLog' = Append(authLog,
                    [userId |-> NoUser, success |-> FALSE,
                     similarity |-> SimZero, by |-> a])
            /\ auth' = [auth EXCEPT ![a].pc = "done",
                                    ![a].writes = Append(@, TRUE),
                                    ![a].response = EmptyGalleryResponse]
       ELSE /\ auth' = [auth EXCEPT ![a].pc = "errorLog",
                                    ![a].writes = Append(@, FALSE)]
            /\ UNCHANGED authLog
    /\ UNCHANGED <<now, rateLimitStore, users, faceData, reg, rlCalls, guardCall,
                   clientVars, userVars>>

\* the handler always falls into the catch block after the decision's
\* authLog.create, as if the statement after it threw
AfterDecisionLogAlwaysCatch(slot, ok) ==
    [slot EXCEPT !.pc = "errorLog", !.writes = Append(@, ok)]

\* route.ts:92-116  the handler after `await authLog.create` of the
\* decision's record: the decision is returned, or the rejection of the
\* create is thrown to the catch block
AfterDecisionLog(slot, ok) ==
    IF ok
    THEN [slot EXCEPT !.pc = "done", !.writes = Append(@, TRUE),
                      !.response = DecisionResponse(slot.isAuthenticated,
                                                    slot.bestMatch)]
    ELSE [slot EXCEPT !.pc = "errorLog", !.writes = Append(@, FALSE)]

\* route.ts:92-116  authLog.create inserts the decision's record or
\* rejects, and the handler goes on; a record naming a user that is no
\* longer stored is refused by the foreign key (part_004:27)
AuthDecisionLog(a, ok) ==
    /\ auth[a].pc = "decisionLog"
    /\ LET record == DecisionRecord(auth[a].isAuthenticated,
                                    auth[a].bestMatch, a)
           inserted == ok /\ (record.userId = NoUser \/ record.userId \in users)
       IN  /\ authLog' = IF inserted THEN Append(authLog, record) ELSE authLog
           /\ auth' = [auth EXCEPT ![a] = AfterDecisionLog(@, inserted)]
    /\ UNCHANGED <<now, rateLimitStore, users, faceData, reg, rlCalls, guardCall,
                   clientVars, userVars>>

\* route.ts:118-136  the catch block: authLog.create of the error record,
\* its rejection swallowed by .catch, then the 500 response
AuthErrorLog(a, ok) ==
    /\ auth[a].pc = "errorLog"
    /\ authLog' = IF ok
                  THEN Append(authLog, [userId |-> NoUser, success |-> FALSE,
                                        similarity |-> SimNull, by |-> a])
                  ELSE authLog
    /\ auth' = [auth EXCEPT ![a].pc = "done",
                            ![a].writes = Append(@, ok),
                            ![a].response =
                                AuthErrorResponse(500, "authentication error")]
    /\ UNCHANGED <<now, rateLimitStore, users, faceData, reg, rlCalls, guardCall,
                   clientVars, userVars>>

----------------------------------------------------------------------------
(* The users API: POST /api/users (part_000:79-155), PUT and DELETE        *)
(* /api/users/[id] (users/[id]/route.ts:86-281)                            *)

\* a string of a request body: absent (undefined), or the text s wrapped
\* in nothing, in blanks or in angle brackets
NoText == [defined |-> FALSE, s |-> "", wrap |-> ""]
Text(s, wrap) == [defined |-> TRUE, s |-> s, wrap |-> wrap]

\* error-handler.ts:184-186  sanitizeInput: trim, then drop < and >
sanitizeInput(input) == [input EXCEPT !.wrap = ""]

\* error-handler.ts:155-158  isValidEmail: the texts of the model that
\* match /^[^\s@]+@[^\s@]+\.[^\s@]+$/; a text still wrapped in blanks
\* does not
isValidEmail(email) ==
    email.wrap # "blanks" /\ email.s \in {"a@x.io", "b@x.io", "c@x.io"}

\* error-handler.ts:160-162  isValidName
isValidName(name) == name.s # ""

\* the row of User with the email, or NoUser (user.findUnique by email)
UserByEmail(email) ==
    IF \E u \in users : userEmail[u] = email
    THEN CHOOSE u \in users : userEmail[u] = email
    ELSE NoUser

\* part_004:3  the id of the next row of User: an id never given before
FreshUserId ==
    CHOOSE n \in NewUserIds :
        /\ n \notin users \cup deleted
        /\ \A m \in NewUserIds : (m \notin users \cup deleted) => ~LessId(m, n)

UsrRespond(slot, status) ==
    [slot EXCEPT !.pc = "done",
                 !.response = [status |-> status, success |-> FALSE,
                               id |-> NoUser]]

\* the bodies the model sends to POST /api/users
UsrBody(name, email) == [malformed |-> FALSE, name |-> name, email |-> email]
PostBodies ==
    { UsrBody(Text("Ann", ""), Text("a@x.io", "")),
      UsrBody(Text("Ann", ""), Text("c@x.io", "")),
      UsrBody(Text("Ann", "blanks"), Text("c@x.io", "blanks")),
      UsrBody(Text("Ann", ""), Text("c@x.io", "angles")),
      UsrBody(Text("", "blanks"), Text("c@x.io", "")),
      UsrBody(Text("Ann", ""), Text("nobody", "")),
      UsrBody(NoText, Text("c@x.io", "")),
      [malformed |-> TRUE, name |-> NoText, email |-> NoText] }

\* part_000:81-106  request.json() resolves or rejects, the fields are
\* sanitized (a TypeError on an absent one) and validated, up to
\* `await user.findUnique`
UsrPostStart(s, body) ==
    /\ usr[s].pc = "idle"
    /\ usr' = [usr EXCEPT ![s] =
            LET sanitizedName == sanitizeInput(body.name)
                sanitizedEmail == sanitizeInput(body.email)
                slot == [@ EXCEPT !.op = "POST"]
            IN  IF body.malformed \/ ~body.name.defined \/ ~body.email.defined
                THEN UsrRespond(slot, 500)
                ELSE IF ~isValidName(sanitizedName) THEN UsrRespond(slot, 400)
                ELSE IF ~isValidEmail(sanitizedEmail) THEN UsrRespond(slot, 400)
                ELSE [slot EXCEPT !.pc = "findByEmail", !.hasName = TRUE,
                                  !.email = sanitizedEmail.s]]
    /\ UNCHANGED <<now, rateLimitStore, users, faceData, authLog, reg, auth,
                   rlCalls, guardCall, clientVars, userEmail, deleted>>

\* part_000:104-116  user.findUnique by email answers or rejects: 409 for
\* a row found, else up to `await user.create`
UsrPostFind(s, ok) ==
    /\ usr[s].pc = "findByEmail"
    /\ usr' = [usr EXCEPT ![s] =
            IF ~ok THEN UsrRespond(@, 500)
            ELSE IF UserByEmail(@.email) # NoUser THEN UsrRespond(@, 409)
            ELSE [@ EXCEPT !.pc = "create"]]
    /\ UNCHANGED <<now, rateLimitStore, users, faceData, authLog, reg, auth,
                   rlCalls, guardCall, clientVars, userEmail, deleted>>

\* user.create on a table without the unique index on email
UsrPostCreateNoIndex(s, ok) ==
    /\ usr[s].pc = "create"
    /\ LET taken == UserByEmail(usr[s].email) # NoUser
           id == FreshUserId
       IN  IF ok
           THEN /\ users' = users \cup {id}
                /\ userEmail' = [userEmail EXCEPT ![id] = usr[s].email]
                /\ usr' = [usr EXCEPT ![s].pc = "done",
                                     ![s].conflict = taken,
                                     ![s].created = id,
                                     ![s].response = [status |-> 201,
                                         success |-> TRUE, id |-> id]]
           ELSE /\ usr' = [usr EXCEPT ![s] = UsrRespond(@, 500)]
                /\ UNCHANGED <<users, userEmail>>
    /\ UNCHANGED <<now, rateLimitStore, faceData, authLog, reg, auth,
                   rlCalls, guardCall, clientVars, deleted>>

\* part_000:116-153  user.create inserts the row and the handler answers
\* 201; the unique index on email (part_004:31) refuses a second row with
\* the email (P2002, answered 409); any other rejection is answered 500
UsrPostCreate(s, ok) ==
    /\ usr[s].pc = "create"
    /\ LET taken == UserByEmail(usr[s].email) # NoUser
           id == FreshUserId
       IN  IF ok /\ ~taken
           THEN /\ users' = users \cup {id}
                /\ userEmail' = [userEmail EXCEPT ![id] = usr[s].email]
                /\ usr' = [usr EXCEPT ![s].pc = "done",
                                     ![s].created = id,
                                     ![s].response = [status |-> 201,
                                         success |-> TRUE, id |-> id]]
           ELSE /\ usr' = [usr EXCEPT ![s] =
                       IF ok THEN UsrRespond([@ EXCEPT !.conflict = TRUE], 409)
                       ELSE UsrRespond(@, 500)]
                /\ UNCHANGED <<users, userEmail>>
    /\ UNCHANGED <<now, rateLimitStore, faceData, authLog, reg, auth,
                   rlCalls, guardCall, clientVars, deleted>>

\* the bodies the model sends to PUT /api/users/[id]
PutBodies ==
    { UsrBody(NoText, Text("a@x.io", "")),
      UsrBody(NoText, Text("b@x.io", "")),
      UsrBody(Text("Ann", ""), Text("c@x.io", "blanks")),
      UsrBody(NoText, Text("nobody", "")),
      UsrBody(Text("", ""), NoText),
      UsrBody(Text("Ann", ""), NoText),
      UsrBody(NoText, NoText),
      [malformed |-> TRUE, name |-> NoText, email |-> NoText] }

\* users/[id]/route.ts:86-105  request.json() resolves or rejects, up to
\* `await user.findUnique` by id; the body waits in the slot as read
UsrPutStart(s, id, body) ==
    /\ usr[s].pc = "idle"
    /\ usr' = [usr EXCEPT ![s] =
            IF body.malformed THEN UsrRespond([@ EXCEPT !.op = "PUT"], 500)
            ELSE [@ EXCEPT !.op = "PUT", !.pc = "findById", !.id = id,
                           !.body = body]]
    /\ UNCHANGED <<now, rateLimitStore, users, faceData, authLog, reg, auth,
                   rlCalls, guardCall, clientVars, userEmail, deleted>>

\* users/[id]/route.ts:107-162  the handler once existingUser is known:
\* the checks of name and email, up to the `await` of the duplicate lookup
\* (an email other than the user's own) or of user.update
UsrPutChecked(slot, existingEmail) ==
    LET body == slot.body
        sanitizedName == sanitizeInput(body.name)
        sanitizedEmail == sanitizeInput(body.email)
    IN  IF body.name.defined /\ ~isValidName(sanitizedName)
        THEN UsrRespond(slot, 400)
        ELSE IF body.email.defined /\ ~isValidEmail(sanitizedEmail)
        THEN UsrRespond(slot, 400)
        ELSE IF body.email.defined /\ sanitizedEmail.s # existingEmail
        THEN [slot EXCEPT !.pc = "findDuplicate", !.hasName = body.name.defined,
                          !.email = sanitizedEmail.s,
                          !.existingEmail = existingEmail]
        ELSE IF ~body.name.defined /\ ~body.email.defined
        THEN UsrRespond(slot, 400)
        ELSE [slot EXCEPT !.pc = "update", !.hasName = body.name.defined,
                          !.email = IF body.email.defined
                                    THEN sanitizedEmail.s ELSE "",
                          !.existingEmail = existingEmail]

\* users/[id]/route.ts:103-162  user.findUnique by id answers or rejects:
\* 404 for no row, else the checks
UsrPutFind(s, ok) ==
    /\ usr[s].pc = "findById"
    /\ usr[s].op = "PUT"
    /\ usr' = [usr EXCEPT ![s] =
            IF ~ok THEN UsrRespond(@, 500)
            ELSE IF @.id \notin users THEN UsrRespond(@, 404)
            ELSE UsrPutChecked(@, userEmail[@.id])]
    /\ UNCHANGED <<now, rateLimitStore, users, faceData, authLog, reg, auth,
                   rlCalls, guardCall, clientVars, userEmail, deleted>>

\* users/[id]/route.ts:141-165  user.findUnique by email answers or
\* rejects: 409 for a row of another user, else up to `await user.update`
UsrPutFindDuplicate(s, ok) ==
    /\ usr[s].pc = "findDuplicate"
    /\ usr' = [usr EXCEPT ![s] =
            LET duplicateUser == UserByEmail(@.email)
            IN  IF ~ok THEN UsrRespond(@, 500)
                ELSE IF duplicateUser # NoUser /\ duplicateUser # @.id
                THEN UsrRespond(@, 409)
                ELSE [@ EXCEPT !.pc = "update"]]
    /\ UNCHANGED <<now, rateLimitStore, users, faceData, authLog, reg, auth,
                   rlCalls, guardCall, clientVars, userEmail, deleted>>

\* users/[id]/route.ts:165-206  user.update writes the row and the handler
\* answers 200; the unique index on email (part_004:31) refuses an email
\* another row holds (P2002, answered 409); a row no longer there (P2025)
\* and any other rejection are answered 500
UsrPutUpdate(s, ok) ==
    /\ usr[s].pc = "update"
    /\ LET id == usr[s].id
           holder == UserByEmail(usr[s].email)
           taken == usr[s].email # "" /\ holder # NoUser /\ holder # id
       IN  IF ok /\ id \in users /\ ~taken
           THEN /\ userEmail' = IF usr[s].email # ""
                                 THEN [userEmail EXCEPT ![id] = usr[s].email]
                                 ELSE userEmail
                /\ usr' = [usr EXCEPT ![s].pc = "done",
                                     ![s].response = [status |-> 200,
                                         success |-> TRUE, id |-> id]]
           ELSE /\ usr' = [usr EXCEPT ![s] =
                       IF ok /\ id \in users
                       THEN UsrRespond([@ EXCEPT !.conflict = TRUE], 409)
                       ELSE UsrRespond(@, 500)]
                /\ UNCHANGED userEmail
    /\ UNCHANGED <<now, rateLimitStore, users, faceData, authLog, reg, auth,
                   rlCalls, guardCall, clientVars, deleted>>

\* users/[id]/route.ts:211-232  DELETE: the id of the path is read, up to
\* `await user.findUnique`
UsrDeleteStart(s, id) ==
    /\ usr[s].pc = "idle"
    /\ usr' = [usr EXCEPT ![s] = [@ EXCEPT !.op = "DELETE", !.pc = "findById",
                                          !.id = id]]
    /\ UNCHANGED <<now, rateLimitStore, users, faceData, authLog, reg, auth,
                   rlCalls, guardCall, clientVars, userEmail, deleted>>

\* users/[id]/route.ts:226-244  user.findUnique answers or rejects: 404
\* for no row, else up to `await user.delete`
UsrDeleteFind(s, ok) ==
    /\ usr[s].pc = "findById"
    /\ usr[s].op = "DELETE"
    /\ usr' = [usr EXCEPT ![s] =
            IF ~ok THEN UsrRespond(@, 500)
            ELSE IF @.id \notin users THEN UsrRespond(@, 404)
            ELSE [@ EXCEPT !.pc = "delete"]]
    /\ UNCHANGED <<now, rateLimitStore, users, faceData, authLog, reg, auth,
                   rlCalls, guardCall, clientVars, userEmail, deleted>>

\* part_004:17  ON DELETE CASCADE: the rows of FaceData without the user's
WithoutUser(rows, id) ==
    LET Kept(row) == row.userId # id
    IN  SelectSeq(rows, Kept)

\* part_004:27  ON DELETE SET NULL: the rows of AuthLog with the user's id
\* set to null
WithUserNull(rows, id) ==
    [i \in 1..Len(rows) |->
        IF rows[i].userId = id THEN [rows[i] EXCEPT !.userId = NoUser]
        ELSE rows[i]]

\* user.delete removing the row of User alone
UsrDeleteNoCascade(s, ok) ==
    /\ usr[s].pc = "delete"
    /\ LET id == usr[s].id
       IN  IF ok /\ id \in users
           THEN /\ users' = users \ {id}
                /\ userEmail' = [userEmail EXCEPT ![id] = ""]
                /\ authLog' = WithUserNull(authLog, id)
                /\ deleted' = deleted \cup {id}
                /\ usr' = [usr EXCEPT ![s].pc = "done",
                                     ![s].response = [status |-> 200,
                                         success |-> TRUE, id |-> id]]
                /\ UNCHANGED faceData
           ELSE /\ usr' = [usr EXCEPT ![s] =
                              UsrRespond(@, IF ok THEN 404 ELSE 500)]
                /\ UNCHANGED <<users, userEmail, faceData, authLog, deleted>>
    /\ UNCHANGED <<now, rateLimitStore, reg, auth, rlCalls, guardCall,
                   clientVars>>

\* users/[id]/route.ts:242-280  user.delete removes the row of User, and
\* with it the user's rows of FaceData, and sets the userId of the user's
\* rows of AuthLog to null, and the handler answers 200; a row no longer
\* there (P2025) is answered 404, any other rejection 500
UsrDelete(s, ok) ==
    /\ usr[s].pc = "delete"
    /\ LET id == usr[s].id
       IN  IF ok /\ id \in users
           THEN /\ users' = users \ {id}
                /\ userEmail' = [userEmail EXCEPT ![id] = ""]
                /\ faceData' = WithoutUser(faceData, id)
                /\ authLog' = WithUserNull(authLog, id)
                /\ deleted' = deleted \cup {id}
                /\ usr' = [usr EXCEPT ![s].pc = "done",
                                     ![s].response = [status |-> 200,
                                         success |-> TRUE, id |-> id]]
           ELSE /\ usr' = [usr EXCEPT ![s] =
                              UsrRespond(@, IF ok THEN 404 ELSE 500)]
                /\ UNCHANGED <<users, userEmail, faceData, authLog, deleted>>
    /\ UNCHANGED <<now, rateLimitStore, reg, auth, rlCalls, guardCall,
                   clientVars>>

----------------------------------------------------------------------------
(* The browser-side detector (face-detection.ts:45-368).  A coordinate c   *)
(* of a landmark is the integer 1000 * c; a quality q computed by the      *)
(* detector is the integer 10000 * q.                                      *)

Abs(x) == IF x < 0 THEN -x ELSE x

\* the z of a landmark that has none (face-detection.ts:5, z?: number)
Undefined == [t |-> "undefined", v |-> 0]

\* a landmark set: its length, the landmarks at the indices 1, 33 and 362
\* (those among them that the length admits), and the z shared by every
\* other landmark
MissingLandmark == [present |-> FALSE, x |-> 0, y |-> 0, z |-> Undefined]
Landmark(x, y, z) == [present |-> TRUE, x |-> x, y |-> y, z |-> z]
LandmarkSet(n, nose, leftEye, rightEye, z) ==
    [length |-> n, nose |-> nose, leftEye |-> leftEye, rightEye |-> rightEye,
     z |-> z]

\* landmarks[i]: undefined past the end of the array
LandmarkAt(landmarks, i) ==
    CASE i >= landmarks.length -> MissingLandmark
      [] i = 1 -> landmarks.nose
      [] i = 33 -> landmarks.leftEye
      [] i = 362 -> landmarks.rightEye
      [] OTHER -> Landmark(500, 500, landmarks.z)

\* face-detection.ts:274, 328  point.z || 0
ZOrZero(point) == IF point.z.t = "num" THEN point.z.v ELSE 0

\* face-detection.ts:328  landmarks.reduce((sum, point) => sum + (point.z || 0), 0)
SumZ(landmarks) ==
    LET anchors == {i \in {1, 33, 362} : i < landmarks.length}
        RECURSIVE Total(_)
        Total(S) == IF S = {} THEN 0
                    ELSE LET i == CHOOSE j \in S : TRUE
                         IN  ZOrZero(LandmarkAt(landmarks, i)) + Total(S \ {i})
    IN  Total(anchors)
        + (landmarks.length - Cardinality(anchors))
            * ZOrZero(Landmark(500, 500, landmarks.z))

\* face-detection.ts:299  let qualityScore = 1.0
QualityOne == 10000
\* face-detection.ts:311, 318, 324, 330  the factors, in tenths
TiltPenalty == 8
CenteringPenalty == 7
WidthPenalty == 6
DepthPenalty == 8

\* qualityScore *= penalty / 10
Penalised(qualityScore, penalty) == (qualityScore * penalty) \div 10

\* the function without the upper limit on the face width
calculateQualityNoWidthCeiling(landmarks) ==
    IF landmarks.length = 0 THEN 0
    ELSE
    LET nose == LandmarkAt(landmarks, 1)
        leftEye == LandmarkAt(landmarks, 33)
        rightEye == LandmarkAt(landmarks, 362)
    IN  IF ~nose.present \/ ~leftEye.present \/ ~rightEye.present THEN 0
        ELSE
        LET eyeHeightDiff == Abs(leftEye.y - rightEye.y)
            tilt == IF eyeHeightDiff > 50
                    THEN Penalised(QualityOne, TiltPenalty) ELSE QualityOne
            twiceNoseOffset == Abs(2 * nose.x - (leftEye.x + rightEye.x))
            centering == IF twiceNoseOffset > 100
                         THEN Penalised(tilt, CenteringPenalty) ELSE tilt
            faceWidth == Abs(leftEye.x - rightEye.x)
            width == IF faceWidth < 100
                     THEN Penalised(centering, WidthPenalty) ELSE centering
            depth == IF Abs(SumZ(landmarks)) > 100 * landmarks.length
                     THEN Penalised(width, DepthPenalty) ELSE width
        IN  Max(0, Min(QualityOne, depth))

\* face-detection.ts:296-334  calculateQuality.  eyeCenter is a half of
\* leftEye.x + rightEye.x, so the offset of the nose is compared doubled;
\* avgZ is SumZ / length, so the sum is compared with 0.1 * length
calculateQuality(landmarks) ==
    IF landmarks.length = 0 THEN 0
    ELSE
    LET nose == LandmarkAt(landmarks, 1)
        leftEye == LandmarkAt(landmarks, 33)
        rightEye == LandmarkAt(landmarks, 362)
    IN  IF ~nose.present \/ ~leftEye.present \/ ~rightEye.present THEN 0
        ELSE
        LET eyeHeightDiff == Abs(leftEye.y - rightEye.y)
            tilt == IF eyeHeightDiff > 50
                    THEN Penalised(QualityOne, TiltPenalty) ELSE QualityOne
            twiceNoseOffset == Abs(2 * nose.x - (leftEye.x + rightEye.x))
            centering == IF twiceNoseOffset > 100
                         THEN Penalised(tilt, CenteringPenalty) ELSE tilt
            faceWidth == Abs(leftEye.x - rightEye.x)
            width == IF faceWidth < 100 \/ faceWidth > 500
                     THEN Penalised(centering, WidthPenalty) ELSE centering
            depth == IF Abs(SumZ(landmarks)) > 100 * landmarks.length
                     THEN Penalised(width, DepthPenalty) ELSE width
        IN  Max(0, Min(QualityOne, depth))

\* face-detection.ts:235-262  keyPointIndices, as written
keyPointIndices ==
    << 10, 338, 297, 332, 284, 251, 389, 356, 454, 323, 361, 288, 397, 365,
       379, 378,
       46, 53, 52, 51, 48,
       276, 283, 282, 281, 278,
       33, 7, 163, 144, 145, 153, 154, 155,
       362, 398, 384, 385, 386, 387, 388, 466,
       1, 2, 5, 4, 6, 19, 94, 125, 141, 235, 236, 3, 51,
       61, 84, 17, 314, 405, 320, 307, 375, 321, 308, 324, 318,
       78, 95, 88, 178, 87, 14, 317, 402,
       9, 10, 151, 200, 175 >>

\* face-detection.ts:265  [...new Set(indices)]: the first occurrence of
\* every value, in order
SetOrder(indices) ==
    LET First(k) == \A j \in 1..(k - 1) : indices[j] # indices[k]
        firsts == SelectSeq([k \in 1..Len(indices) |-> k], First)
    IN  [i \in 1..Len(firsts) |-> indices[firsts[i]]]

\* face-detection.ts:269-276  the loop over the indices: three elements
\* for every index below landmarks.length; an element pushed is kept as
\* the index and the coordinate it was read from
PushFeatures(landmarks, indices) ==
    LET Below(index) == index < landmarks.length
        pushed == SelectSeq(indices, Below)
        axes == <<"x", "y", "z">>
    IN  [i \in 1..(3 * Len(pushed)) |->
            [index |-> pushed[((i - 1) \div 3) + 1],
             axis |-> axes[((i - 1) % 3) + 1], normalized |-> FALSE]]

\* whether Math.sqrt(variance) is 0: every element has the same value
ZeroDeviation(landmarks, features) ==
    LET ValueOf(f) ==
            LET point == LandmarkAt(landmarks, f.index)
            IN  CASE f.axis = "x" -> point.x
                  [] f.axis = "y" -> point.y
                  [] OTHER -> ZOrZero(point)
    IN  \A i \in 1..Len(features) : ValueOf(features[i]) = ValueOf(features[1])

\* face-detection.ts:282-294  normalizeFeatures: [] for [], the vector
\* itself when the deviation is 0, else the z-score of every element
normalizeFeatures(landmarks, features) ==
    IF Len(features) = 0 THEN <<>>
    ELSE IF ZeroDeviation(landmarks, features) THEN features
    ELSE [i \in 1..Len(features) |-> [features[i] EXCEPT !.normalized = TRUE]]

\* the extraction over keyPointIndices as they are, duplicates included
extractFeaturesNoSet(landmarks) ==
    normalizeFeatures(landmarks,
        PushFeatures(landmarks, keyPointIndices))

\* face-detection.ts:233-280  extractFeatures
extractFeatures(landmarks) ==
    LET uniqueIndices == SetOrder(keyPointIndices)
    IN  normalizeFeatures(landmarks, PushFeatures(landmarks, uniqueIndices))

\* what MediaPipe hands to handleResults: no face, or the landmark set of
\* the first face
NoFaces == [faces |-> 0, landmarks |-> LandmarkSet(0, MissingLandmark,
                MissingLandmark, MissingLandmark, Undefined)]
OneFace(landmarks) == [faces |-> 1, landmarks |-> landmarks]

\* landmark sets of every length with the anchors in place, and landmark
\* sets of a few lengths with the anchors and the depth varied
PlainLandmarks(n) ==
    LandmarkSet(n, Landmark(500, 400, Num(0)), Landmark(400, 400, Num(0)),
                Landmark(600, 400, Num(0)), Num(0))
AnchorLengths == {2, 34, 363, MaxLandmarks}
VariedLandmarks ==
    { LandmarkSet(n, Landmark(noseX, 450, Num(-50)),
                  Landmark(leftX, leftY, Num(-50)),
                  Landmark(rightX, 400, Undefined), z) :
        n \in AnchorLengths, noseX \in {500, 560}, leftX \in {400, 560},
        leftY \in {400, 460}, rightX \in {600, 950},
        z \in {Num(0), Num(200), Num(-200), Undefined} }
FaceMeshResults ==
    {NoFaces} \cup {OneFace(PlainLandmarks(n)) : n \in 0..MaxLandmarks}
              \cup {OneFace(l) : l \in VariedLandmarks}

\* face-detection.ts:213-231  handleResults: null for no face, else the
\* result built from the first face; features is kept as its length
handleResults(results) ==
    IF results.faces = 0
    THEN [made |-> TRUE, isNull |-> TRUE, landmarks |-> results.landmarks,
          quality |-> 0, features |-> 0]
    ELSE LET landmarks == results.landmarks
             quality == calculateQuality(landmarks)
             features == extractFeatures(landmarks)
         IN  [made |-> TRUE, isNull |-> FALSE, landmarks |-> landmarks,
              quality |-> quality, features |-> Len(features)]

\* one call of handleResults by MediaPipe
HandleResults(results) ==
    /\ detection' = handleResults(results)
    /\ UNCHANGED <<now, rateLimitStore, users, faceData, authLog, reg, auth,
                   rlCalls, guardCall, simCall, detector, loops, userVars>>

\* face-detection.ts:61-89  initialize: the scripts are loaded, the
\* FaceMesh is made and isInitialized is set
Initialize ==
    /\ ~detector.isInitialized
    /\ detector' = [detector EXCEPT !.faceMesh = TRUE, !.isInitialized = TRUE]
    /\ UNCHANGED <<now, rateLimitStore, users, faceData, authLog, reg, auth,
                   rlCalls, guardCall, simCall, loops, detection, userVars>>

\* face-detection.ts:209-211  onResults
OnResults ==
    /\ ~detector.onResultsCallback
    /\ detector' = [detector EXCEPT !.onResultsCallback = TRUE]
    /\ UNCHANGED <<now, rateLimitStore, users, faceData, authLog, reg, auth,
                   rlCalls, guardCall, simCall, loops, detection, userVars>>

\* An element of loops is one call of startCamera and the processFrame
\* closure it creates: "camera" while the call awaits getUserMedia and the
\* metadata of the video, "failed" when that rejected, "scheduled" while
\* requestAnimationFrame(processFrame) is pending, "sending" while
\* processFrame awaits faceMesh.send, "ended" once processFrame returned
\* without scheduling itself.

\* face-detection.ts:132-152  startCamera, up to its first await; it
\* throws on a detector that is not initialized
StartCamera ==
    /\ Len(loops) < MaxLoops
    /\ detector.isInitialized /\ detector.faceMesh
    /\ loops' = Append(loops, "camera")
    /\ UNCHANGED <<now, rateLimitStore, users, faceData, authLog, reg, auth,
                   rlCalls, guardCall, simCall, detector, detection, userVars>>

\* face-detection.ts:157-163, 165-184  the camera answers: startFrameLoop
\* sets this.camera and schedules processFrame, or the call fails
StartFrameLoop(i, ok) ==
    /\ i \in 1..Len(loops)
    /\ loops[i] = "camera"
    /\ IF ok
       THEN /\ detector' = [detector EXCEPT !.camera = "active"]
            /\ loops' = [loops EXCEPT ![i] = "scheduled"]
       ELSE /\ loops' = [loops EXCEPT ![i] = "failed"]
            /\ UNCHANGED detector
    /\ UNCHANGED <<now, rateLimitStore, users, faceData, authLog, reg, auth,
                   rlCalls, guardCall, simCall, detection, userVars>>

\* face-detection.ts:176-178  the end of processFrame: it schedules itself
\* when this.camera is set and active
Rescheduled(d) == IF d.camera = "active" THEN "scheduled" ELSE "ended"

\* face-detection.ts:166-178  the animation frame fires: processFrame
\* sends the frame when there is a FaceMesh and the video is ready and
\* playing, else goes to its end
ProcessFrame(i, ready) ==
    /\ i \in 1..Len(loops)
    /\ loops[i] = "scheduled"
    /\ loops' = [loops EXCEPT ![i] = IF detector.faceMesh /\ ready
                                      THEN "sending" ELSE Rescheduled(detector)]
    /\ UNCHANGED <<now, rateLimitStore, users, faceData, authLog, reg, auth,
                   rlCalls, guardCall, simCall, detector, detection, userVars>>

\* what a send of a frame yields: a result handed to handleResults, or a
\* rejection, which processFrame catches
FrameResults == {NoFaces, OneFace(PlainLandmarks(MaxLandmarks))}

\* face-detection.ts:169-178, 81-83  faceMesh.send resolves, having handed
\* its result to handleResults, or rejects; processFrame goes to its end
SendDone(i, ok, results) ==
    /\ i \in 1..Len(loops)
    /\ loops[i] = "sending"
    /\ detection' = IF ok THEN handleResults(results) ELSE detection
    /\ loops' = [loops EXCEPT ![i] = Rescheduled(detector)]
    /\ UNCHANGED <<now, rateLimitStore, users, faceData, authLog, reg, auth,
                   rlCalls, guardCall, simCall, detector, userVars>>

\* face-detection.ts:186-207  stopCamera
StopCamera ==
    /\ detector' = [detector EXCEPT !.camera = "null"]
    /\ UNCHANGED <<now, rateLimitStore, users, faceData, authLog, reg, auth,
                   rlCalls, guardCall, simCall, loops, detection, userVars>>

\* face-detection.ts:359-367  dispose
Dispose ==
    /\ detector' = [detector EXCEPT !.camera = "null", !.faceMesh = FALSE,
                                    !.isInitialized = FALSE,
                                    !.onResultsCallback = FALSE]
    /\ UNCHANGED <<now, rateLimitStore, users, faceData, authLog, reg, auth,
                   rlCalls, guardCall, simCall, loops, detection, userVars>>

----------------------------------------------------------------------------
(* Specifications *)

InitRateLimit ==
    /\ InitMemory
    /\ users = Users
    /\ faceData = <<>>
    /\ authLog = <<>>

NextRateLimit ==
    \/ Tick
    \/ \E key \in Keys : CallCheckRateLimit(key)

SpecRateLimit == InitRateLimit /\ [][NextRateLimit]_vars


\* the request classifier called on its own
NextGuard ==
    \E ip \in GuardIps, userAgent \in GuardAgents :
        CallDetectSuspiciousActivity(ip, userAgent)

SpecGuard == InitRateLimit /\ [][NextGuard]_vars

\* the similarity function called on its own
NextSimilarity ==
    \E features1 \in SimVectors, features2 \in SimVectors :
        CallCalculateSimilarity(features1, features2)

SpecSimilarity == InitRateLimit /\ [][NextSimilarity]_vars

\* the detector handed one MediaPipe result; handleResults reads no state
\* of the detector, so its first call stands for every call
NextDetection ==
    \E results \in FaceMeshResults :
        ~detection.made /\ HandleResults(results)

SpecDetection == InitRateLimit /\ [][NextDetection]_vars

\* the users API under two concurrent requests, on a database that holds
\* the users u1 and u2
NextUsers ==
    \/ \E s \in UsrSlots, body \in PostBodies : UsrPostStart(s, body)
    \/ \E s \in UsrSlots, ok \in BOOLEAN : UsrPostFind(s, ok)
    \/ \E s \in UsrSlots, ok \in BOOLEAN : UsrPostCreate(s, ok)
    \/ \E s \in UsrSlots, id \in Users \cup {"n1"}, body \in PutBodies :
           UsrPutStart(s, id, body)
    \/ \E s \in UsrSlots, ok \in BOOLEAN : UsrPutFind(s, ok)
    \/ \E s \in UsrSlots, ok \in BOOLEAN : UsrPutFindDuplicate(s, ok)
    \/ \E s \in UsrSlots, ok \in BOOLEAN : UsrPutUpdate(s, ok)
    \/ \E s \in UsrSlots, id \in Users : UsrDeleteStart(s, id)
    \/ \E s \in UsrSlots, ok \in BOOLEAN : UsrDeleteFind(s, ok)
    \/ \E s \in UsrSlots, ok \in BOOLEAN : UsrDelete(s, ok)

SpecUsers == InitRateLimit /\ [][NextUsers]_vars

\* one FaceDetector driven by its page
NextCamera ==
    \/ Initialize
    \/ OnResults
    \/ StartCamera
    \/ \E i \in 1..MaxLoops, ok \in BOOLEAN : StartFrameLoop(i, ok)
    \/ \E i \in 1..MaxLoops, ready \in BOOLEAN : ProcessFrame(i, ready)
    \/ \E i \in 1..MaxLoops, ok \in BOOLEAN, results \in FrameResults :
           SendDone(i, ok, results)
    \/ StopCamera
    \/ Dispose

SpecCamera == InitRateLimit /\ [][NextCamera]_vars

\* the register route under concurrent requests of one client, on a
\* database that holds the user u1 and no face data; the requests are
\* those of RaceHeaders and RaceBodies
RaceHeaders ==
    {h \in RequestHeaders : getClientIP(h) = "10.0.0.1" /\ h.clientIp = ""}
RaceBodies ==
    { RegBody("u1", GoodEmbedding, Num(70)),
      RegBody("u1", Vec(EmbeddingLength, <<Infinity, Num(4)>>), Num(60)),
      RegBody("u2", GoodEmbedding, Num(70)),
      RegBody("u1", GoodEmbedding, Num(55)) }

Init ==
    /\ InitMemory
    /\ users = {"u1"}
    /\ faceData = <<>>
    /\ authLog = <<>>

Next ==
    \/ Tick
    \/ \E r \in RegSlots, headers \in RaceHeaders : RegStart(r, headers)
    \/ \E r \in RegSlots, body \in RaceBodies : RegValidate(r, body)
    \/ \E r \in RegSlots, ok \in BOOLEAN : RegFindUnique(r, ok)
    \/ \E r \in RegSlots, ok \in BOOLEAN : RegCreateFace(r, ok)
    \/ \E r \in RegSlots, ok \in BOOLEAN : RegCreateLog(r, ok)
    \/ \E r \in RegSlots : RegNext(r)

Spec == Init /\ [][Next]_vars

\* the register route serving one request at a time, with every header
\* set and body of the model
NextRegister ==
    \/ Tick
    \/ \E headers \in RequestHeaders : RegStart("r1", headers)
    \/ \E body \in RegisterBodies : RegValidate("r1", body)
    \/ \E ok \in BOOLEAN : RegFindUnique("r1", ok)
    \/ \E ok \in BOOLEAN : RegCreateFace("r1", ok)
    \/ \E ok \in BOOLEAN : RegCreateLog("r1", ok)
    \/ RegNext("r1")

SpecRegister == Init /\ [][NextRegister]_vars

\* the authenticate route on a database found at start: any rows of
\* FaceData the schema admits (part_004:11-18: a TEXT embedding, a userId
\* that references a user), written by the register route or by another
\* writer of the database
StoredTexts ==
    { JsonStringify(Vec(EmbeddingLength, <<Num(3), Num(4)>>)),
      JsonStringify(Vec(EmbeddingLength, <<Num(4), Num(3)>>)),
      JsonStringify(Vec(EmbeddingLength, <<Num(6), Num(8)>>)),
      JsonStringify(Vec(EmbeddingLength, <<Infinity, Num(4)>>)),
      JsonStringify(Vec(EmbeddingLength, <<Num(0), Num(0)>>)),
      JsonStringify(Vec(EmbeddingLength, <<Num(-3), Num(-4)>>)),
      JsonStringify(Vec(EmbeddingLength - 1, <<Num(3), Num(4)>>)),
      Garbage }

GalleryRows(n) ==
    [1..n -> [userId : Users, embedding : StoredTexts]]

Gallery(rows) ==
    [i \in 1..Len(rows) |->
        [id |-> i, userId |-> rows[i].userId, embedding |-> rows[i].embedding,
         quality |-> Num(70)]]

InitAuthenticate ==
    /\ InitMemory
    /\ users = Users
    /\ \E n \in 0..MaxGallery : \E rows \in GalleryRows(n) :
           faceData = Gallery(rows)
    /\ authLog = <<>>

NextAuthenticate ==
    \/ \E a \in AuthSlots, body \in AuthBodies : AuthStart(a, body)
    \/ \E a \in AuthSlots, ok \in BOOLEAN : AuthFindMany(a, ok)
    \/ \E a \in AuthSlots, ok \in BOOLEAN : AuthEmptyLog(a, ok)
    \/ \E a \in AuthSlots, ok \in BOOLEAN : AuthDecisionLog(a, ok)
    \/ \E a \in AuthSlots, ok \in BOOLEAN : AuthErrorLog(a, ok)

SpecAuthenticate == InitAuthenticate /\ [][NextAuthenticate]_vars

\* the authenticate route next to the deletion of users, on a database
\* found at start whose rows hold one of two embeddings
DeletionRows(n) ==
    [1..n -> [userId : Users,
              embedding : { JsonStringify(Vec(EmbeddingLength, <<Num(3), Num(4)>>)),
                            JsonStringify(Vec(EmbeddingLength, <<Num(4), Num(3)>>)) }]]

InitDeletion ==
    /\ InitMemory
    /\ users = Users
    /\ \E n \in 0..MaxGallery : \E rows \in DeletionRows(n) :
           faceData = Gallery(rows)
    /\ authLog = <<>>

DeletionBodies ==
    { Probe(EmbeddingLength, Num(3), Num(4)),
      Probe(EmbeddingLength, Num(3), Num(0)),
      [malformed |-> TRUE, faceEmbedding |-> NotAnArray] }

NextDeletion ==
    \/ \E a \in AuthSlots, body \in DeletionBodies : AuthStart(a, body)
    \/ \E a \in AuthSlots, ok \in BOOLEAN : AuthFindMany(a, ok)
    \/ \E a \in AuthSlots, ok \in BOOLEAN : AuthEmptyLog(a, ok)
    \/ \E a \in AuthSlots, ok \in BOOLEAN : AuthDecisionLog(a, ok)
    \/ \E a \in AuthSlots, ok \in BOOLEAN : AuthErrorLog(a, ok)
    \/ \E s \in UsrSlots, id \in Users : UsrDeleteStart(s, id)
    \/ \E s \in UsrSlots, ok \in BOOLEAN : UsrDeleteFind(s, ok)
    \/ \E s \in UsrSlots, ok \in BOOLEAN : UsrDelete(s, ok)

SpecDeletion == InitDeletion /\ [][NextDeletion]_vars

----------------------------------------------------------------------------
(* Claims on the rate limiter, under SpecRateLimit *)

\* C1: with maxRequests=5 and windowMs=60000, the first five calls for a
\* key that fall inside one window return allowed=true, and every further
\* call inside that window returns allowed=false with remaining=0.
C1_FiveAllowedThenRejected ==
    rlCalls.last.made =>
        LET nth == rlCalls.win[rlCalls.last.key].calls
            result == rlCalls.last.result
        IN  /\ nth <= MaxRequests => result.allowed
            /\ nth > MaxRequests => ~result.allowed /\ result.remaining = 0

\* the sixth call of a window has been made, and was rejected, in a window
\* that is not the key's first
C1_Witness ==
    /\ rlCalls.last.made
    /\ rlCalls.win[rlCalls.last.key].calls = MaxRequests + 1
    /\ rlCalls.win[rlCalls.last.key].start > 0
    /\ ~rlCalls.last.result.allowed

----------------------------------------------------------------------------
(* Claims on the register route, under Spec *)

\* the request of the slot has passed the rate limiter and waits at an await
InFlight(r) == reg[r].pc \in {"json", "findUnique", "createFace", "createLog"}

\* C2: under any interleaving of concurrent register requests of one
\* client key no increment of checkRateLimit is lost: the stored count is
\* the number of requests allowed in the current window, and that number
\* is at most maxRequests.
C2_NoLostIncrement ==
    \A key \in Keys :
        rateLimitStore[key].present =>
            /\ rateLimitStore[key].count = rlCalls.win[key].allowed
            /\ rlCalls.win[key].allowed <= MaxRequests

\* a request was rejected by the limiter while another request of the same
\* key, admitted in the same window, was still in flight
C2_Witness ==
    \E r, q \in RegSlots :
        /\ InFlight(r)
        /\ reg[q].pc = "done"
        /\ reg[q].error.code = "RATE_LIMIT_EXCEEDED"
        /\ rateLimitStore["10.0.0.1"].count = MaxRequests
        /\ rlCalls.win["10.0.0.1"].calls = MaxRequests + 1

\* C3: in every reachable state, concurrent register requests included,
\* FaceData holds at most one row per user.
C3_OneEntryPerIdentity ==
    \A u \in Users : Cardinality(FaceDataOf(u)) <= 1

----------------------------------------------------------------------------
(* Claims on the authenticate route, under SpecAuthenticate *)

Range(seq) == {seq[i] : i \in 1..Len(seq)}

\* the audit records a request has appended
RecordsBy(a) == {i \in 1..Len(authLog) : authLog[i].by = a}

\* the request has answered with a decision
Returned(a) == auth[a].pc = "done" /\ auth[a].response.status = 200

\* the decision the handler has computed before it awaits the audit write
ComputedSuccess(a) == auth[a].decided = "scan" /\ auth[a].isAuthenticated
ComputedSimilarity(a) ==
    IF auth[a].decided = "scan" THEN auth[a].bestMatch.similarity ELSE SimZero
ComputedUser(a) ==
    IF ComputedSuccess(a) THEN auth[a].bestMatch.user ELSE NoUser

\* C4: if the audit write fails after the decision has been computed, the
\* caller still receives the computed decision (authenticated, identity,
\* similarity, threshold), never an error response in its place.
C4_AuditFailureKeepsDecision ==
    \A a \in AuthSlots :
        (/\ auth[a].pc = "done"
         /\ auth[a].decided # "none"
         /\ FALSE \in Range(auth[a].writes))
        => /\ auth[a].response.status = 200
           /\ auth[a].response.success = ComputedSuccess(a)
           /\ auth[a].response.user = ComputedUser(a)
           /\ auth[a].response.similarity = ComputedSimilarity(a)
           /\ auth[a].response.threshold = Threshold

\* C5 as claimed: every request that reaches a decision appends exactly
\* one audit record, whatever the outcome of the audit write.
C5_ExactlyOneAuditRecord ==
    \A a \in AuthSlots :
        (auth[a].pc = "done" /\ auth[a].decided # "none")
        => Cardinality(RecordsBy(a)) = 1

\* C5 as amended: a request that reaches a decision never appends two
\* audit records; it has appended exactly one when the audit write, or
\* after its failure the write of the error record, succeeded, and none
\* when both failed.
C5_AtMostOneAuditRecord ==
    \A a \in AuthSlots :
        /\ Cardinality(RecordsBy(a)) <= 1
        /\ (auth[a].pc = "done" /\ auth[a].decided # "none")
           => (Cardinality(RecordsBy(a)) = 1 <=> TRUE \in Range(auth[a].writes))

\* a decision was computed, its audit write failed and the error record
\* was written in its place
C5_Witness ==
    \E a \in AuthSlots :
        /\ auth[a].pc = "done"
        /\ auth[a].decided = "scan"
        /\ auth[a].writes = <<FALSE, TRUE>>
        /\ Cardinality(RecordsBy(a)) = 1

\* s >= 0.80, for a similarity that is a real number
AtLeastThreshold(s) ==
    /\ s.k = "num"
    /\ s.sgn = 1
    /\ s.num * ThresholdDen * ThresholdDen >= ThresholdNum * ThresholdNum * s.den

\* C6: a returned decision has authenticated=true if and only if the best
\* similarity of the scan is >= 0.80, and it carries that similarity and
\* the threshold 0.80.
C6_AuthenticatedIffAtLeastThreshold ==
    \A a \in AuthSlots :
        Returned(a) =>
            /\ auth[a].response.success <=> AtLeastThreshold(ComputedSimilarity(a))
            /\ auth[a].response.similarity = ComputedSimilarity(a)
            /\ auth[a].response.threshold = [num |-> 4, den |-> 5]

\* a decision with the best similarity exactly 0.80 was returned
C6_Witness ==
    \E a \in AuthSlots :
        /\ Returned(a)
        /\ auth[a].response.success
        /\ auth[a].response.similarity = [k |-> "num", sgn |-> 1, num |-> 16, den |-> 25]

\* the rows of the snapshot the scan compared: the embedding decodes and
\* has the length of the probe
ComparedRows(a) ==
    {i \in 1..Len(auth[a].scanned) :
        ~RowThrows(auth[a].scanned, auth[a].faceEmbedding, i)}

\* the similarity of row i of the snapshot to the probe
SimilarityOf(a, i) ==
    calculateSimilarity(auth[a].faceEmbedding,
                        JsonParse(auth[a].scanned[i].embedding).value).value

\* C7: the user of a returned decision is populated only when
\* authenticated is true, and then it is the user of a compared row whose
\* similarity no compared row exceeds; a failed decision names nobody.
C7_IdentityOnlyWhenAuthenticated ==
    \A a \in AuthSlots :
        Returned(a) =>
            /\ auth[a].response.user # NoUser => auth[a].response.success
            /\ auth[a].response.success =>
                 \E i \in ComparedRows(a) :
                    /\ auth[a].response.user = auth[a].scanned[i].userId
                    /\ auth[a].response.similarity = SimilarityOf(a, i)
                    /\ \A j \in ComparedRows(a) :
                          ~SimGt(SimilarityOf(a, j), SimilarityOf(a, i))

\* a failed decision was returned although the scan had a nearest user
C7_Witness ==
    \E a \in AuthSlots :
        /\ Returned(a)
        /\ ~auth[a].response.success
        /\ auth[a].bestMatch.user # NoUser
        /\ auth[a].response.user = NoUser

\* the first row, in gallery order, among rows that no row of rows exceeds
FirstHighest(a, rows) ==
    LET highest == {i \in rows :
                      \A j \in rows : ~SimGt(SimilarityOf(a, j), SimilarityOf(a, i))}
    IN  CHOOSE i \in highest : \A j \in highest : i <= j

\* C8 as claimed: over a gallery with at least one compared row (all
\* similarities being real numbers) the scan returns the highest
\* similarity among the compared rows and the user of the first row that
\* attains it.
C8_HighestOfCompared ==
    \A a \in AuthSlots :
        (/\ auth[a].decided = "scan"
         /\ ComparedRows(a) # {}
         /\ \A i \in ComparedRows(a) : SimilarityOf(a, i).k = "num")
        => LET i == FirstHighest(a, ComparedRows(a))
           IN  /\ auth[a].bestMatch.similarity = SimilarityOf(a, i)
               /\ auth[a].bestMatch.user = auth[a].scanned[i].userId

\* the compared rows whose similarity is greater than 0
PositiveRows(a) ==
    {i \in ComparedRows(a) : SimGt(SimilarityOf(a, i), SimZero)}

\* C8 as amended: the scan returns the highest similarity among the
\* compared rows whose similarity is greater than 0, with the user of the
\* first row that attains it; when no compared row has a similarity
\* greater than 0 it returns similarity 0 and no user.
C8_HighestPositiveOfCompared ==
    \A a \in AuthSlots :
        auth[a].decided = "scan" =>
            IF PositiveRows(a) = {}
            THEN auth[a].bestMatch = NoMatch
            ELSE LET i == FirstHighest(a, PositiveRows(a))
                 IN  auth[a].bestMatch =
                        [user |-> auth[a].scanned[i].userId,
                         similarity |-> SimilarityOf(a, i),
                         faceDataId |-> auth[a].scanned[i].id]

\* two rows of different users tie at the highest similarity and the scan
\* has kept the first
C8_Witness ==
    \E a \in AuthSlots :
        /\ auth[a].decided = "scan"
        /\ PositiveRows(a) = {1, 2}
        /\ SimilarityOf(a, 1) = SimilarityOf(a, 2)
        /\ auth[a].scanned[1].userId # auth[a].scanned[2].userId
        /\ auth[a].bestMatch.user = auth[a].scanned[1].userId

\* the snapshot without the rows the scan cannot compare
WithoutSkipped(a) ==
    LET Kept(row) ==
            LET parsed == JsonParse(row.embedding)
            IN  /\ ~parsed.threw
                /\ ~calculateSimilarity(auth[a].faceEmbedding, parsed.value).threw
    IN  SelectSeq(auth[a].scanned, Kept)

\* C9: a row whose embedding does not decode, or whose length differs from
\* the probe's, is skipped without ending the scan: the result of the scan
\* is that of the scan of the gallery without those rows.
C9_SkippedRowsDoNotAbort ==
    \A a \in AuthSlots :
        auth[a].decided = "scan" =>
            auth[a].bestMatch =
                GalleryScan(WithoutSkipped(a), auth[a].faceEmbedding)

\* the first row does not decode and the row after it is the best match
C9_Witness ==
    \E a \in AuthSlots :
        /\ auth[a].decided = "scan"
        /\ Len(auth[a].scanned) = 2
        /\ JsonParse(auth[a].scanned[1].embedding).threw
        /\ auth[a].bestMatch.faceDataId = 2

\* the rows whose stored embedding is the probe
IdenticalRows(a) ==
    {i \in 1..Len(auth[a].scanned) :
        LET parsed == JsonParse(auth[a].scanned[i].embedding)
        IN  ~parsed.threw /\ parsed.value = auth[a].faceEmbedding}

\* C10 as claimed: when the probe is identical to the stored embedding of
\* a row, the decision is authenticated=true with similarity 1.0 and the
\* user of that row, for every probe and gallery.
C10_IdenticalProbeAuthenticates ==
    \A a \in AuthSlots :
        Returned(a) =>
            \A i \in IdenticalRows(a) :
                /\ auth[a].response.success
                /\ auth[a].response.similarity = SimOne
                /\ auth[a].response.user = auth[a].scanned[i].userId

\* the probe has an element that is not 0
NonZeroProbe(a) ==
    \E i \in 1..Len(auth[a].faceEmbedding.head) :
        auth[a].faceEmbedding.head[i] # Num(0)

\* C10 as amended: when the probe is not the zero vector and is identical
\* to the stored embedding of a row, the decision is authenticated=true
\* with similarity 1.0 (in exact arithmetic) and the user of the first row,
\* in gallery order, whose similarity to the probe is 1.0.
C10_IdenticalNonZeroProbeAuthenticates ==
    \A a \in AuthSlots :
        (Returned(a) /\ NonZeroProbe(a) /\ IdenticalRows(a) # {})
        => /\ auth[a].response.success
           /\ auth[a].response.similarity = SimOne
           /\ LET ones == {i \in ComparedRows(a) : SimilarityOf(a, i) = SimOne}
              IN  auth[a].response.user =
                    auth[a].scanned[CHOOSE i \in ones : \A j \in ones : i <= j].userId

\* the probe is the stored embedding of the second row, a row of another
\* user precedes it with a lower similarity, and the second row's user is
\* returned
C10_Witness ==
    \E a \in AuthSlots :
        /\ Returned(a)
        /\ IdenticalRows(a) = {2}
        /\ ComparedRows(a) = {1, 2}
        /\ SimGt(SimilarityOf(a, 1), SimZero)
        /\ SimGt(SimOne, SimilarityOf(a, 1))
        /\ auth[a].scanned[1].userId # auth[a].scanned[2].userId
        /\ auth[a].response.user = auth[a].scanned[2].userId

----------------------------------------------------------------------------
(* Claims on the empty gallery, under SpecAuthenticate *)

\* C11: a request with a valid probe that finds the gallery empty compares
\* nothing and answers with the decision authenticated=false, no
\* identity, similarity 0 and the threshold, under the message of the
\* empty gallery and not the one of a similarity below the threshold.
C11_EmptyGalleryDecision ==
    \A a \in AuthSlots :
        (/\ auth[a].pc = "done"
         /\ auth[a].decided = "empty"
         /\ Len(faceData) = 0)
        => /\ auth[a].scanned = <<>>
           /\ auth[a].response.status = 200
           /\ ~auth[a].response.success
           /\ auth[a].response.user = NoUser
           /\ auth[a].response.similarity = SimZero
           /\ auth[a].response.threshold = Threshold
           /\ auth[a].response.message = "no registered users"

----------------------------------------------------------------------------
(* Claims on the register route serving one request at a time, under       *)
(* SpecRegister                                                            *)

\* the request of the slot has been answered
Answered(r) == reg[r].pc = "done"

\* the preconditions of a request, each as the request violates it.  The
\* window of the key was exhausted when the request was checked: its call
\* was a call after the fifth of the window or, for a request that made
\* no call, the stored window is exhausted and still open
Suspicious(r) == detectSuspiciousActivity(reg[r].ip, reg[r].userAgent)
Limited(r) ==
    IF reg[r].counted
    THEN rlCalls.last.key = reg[r].ip /\ rlCalls.win[reg[r].ip].calls > MaxRequests
    ELSE /\ reg[r].ip \in Keys
         /\ rateLimitStore[reg[r].ip].present
         /\ rateLimitStore[reg[r].ip].count >= MaxRequests
         /\ rateLimitStore[reg[r].ip].resetTime > now
BadUserId(r) == reg[r].body.userId.s = "" \/ ~reg[r].body.userId.isString
BadEmbedding(r) == ~validateFaceEmbedding(reg[r].body.faceEmbedding).valid
BadQuality(r) ==
    \/ ~validateQuality(reg[r].body.quality).valid
    \/ BelowMinQuality(reg[r].body.quality)
NoIdentity(r) == reg[r].body.userId.s \notin users
PriorEnrollment(r) ==
    reg[r].faceId = 0 /\ FaceDataOf(reg[r].body.userId.s) # {}

Check(violated, code, field, status) ==
    [violated |-> violated, code |-> code, field |-> field, status |-> status]

\* the order of the preconditions as the claim lists them
ClaimedOrder(r) ==
    << Check(Suspicious(r), "SECURITY_VIOLATION", "", 403),
       Check(Limited(r), "RATE_LIMIT_EXCEEDED", "", 429),
       Check(BadEmbedding(r), "VALIDATION_ERROR", "faceEmbedding", 400),
       Check(BadQuality(r), "VALIDATION_ERROR", "quality", 400),
       Check(NoIdentity(r), "NOT_FOUND", "", 404),
       Check(PriorEnrollment(r), "RESOURCE_ALREADY_EXISTS", "", 409) >>

\* the same order with the check of the user id after the rate limit
OrderWithUserId(r) ==
    << Check(Suspicious(r), "SECURITY_VIOLATION", "", 403),
       Check(Limited(r), "RATE_LIMIT_EXCEEDED", "", 429),
       Check(BadUserId(r), "VALIDATION_ERROR", "userId", 400),
       Check(BadEmbedding(r), "VALIDATION_ERROR", "faceEmbedding", 400),
       Check(BadQuality(r), "VALIDATION_ERROR", "quality", 400),
       Check(NoIdentity(r), "NOT_FOUND", "", 404),
       Check(PriorEnrollment(r), "RESOURCE_ALREADY_EXISTS", "", 409) >>

\* the request is one the order decides: it was rejected before its body
\* was read or its body was read, and no call of the store failed
Decided(r) ==
    /\ Answered(r)
    /\ Suspicious(r) \/ Limited(r) \/ reg[r].body # NoBody
    /\ reg[r].error.thrown => reg[r].error.code # ""

\* the request is rejected with the error of the earliest violated check
\* of the order, and succeeds when it violates none
RejectedByEarliest(r, order) ==
    LET violated == {i \in 1..Len(order) : order[i].violated}
    IN  IF violated = {}
        THEN ~reg[r].error.thrown /\ reg[r].response.status = 200
        ELSE LET first == CHOOSE i \in violated : \A j \in violated : i <= j
             IN  /\ reg[r].error.thrown
                 /\ reg[r].error.code = order[first].code
                 /\ reg[r].error.field = order[first].field
                 /\ reg[r].response.status = order[first].status

\* C12 as claimed: the preconditions are evaluated in the order suspicious
\* activity, rate limit, embedding shape, quality, identity exists, no
\* prior enrollment; a request is rejected with the error of the earliest
\* one it violates, and a suspicious request is not counted by the limiter.
C12_ClaimedOrder ==
    \A r \in RegSlots :
        Decided(r) =>
            /\ RejectedByEarliest(r, ClaimedOrder(r))
            /\ Suspicious(r) => ~reg[r].counted

\* C12 as amended: the order is suspicious activity, rate limit, user id
\* is a non-empty string, embedding shape, quality, identity exists, no
\* prior enrollment; a request whose body is read and whose store calls
\* answer is rejected with the error of the earliest one it violates, and
\* a suspicious request is not counted by the limiter.
C12_OrderWithUserId ==
    \A r \in RegSlots :
        Decided(r) =>
            /\ RejectedByEarliest(r, OrderWithUserId(r))
            /\ Suspicious(r) => ~reg[r].counted

\* a request with a user id that is no string and an embedding of the
\* wrong length was rejected for its user id
C12_Witness ==
    \E r \in RegSlots :
        /\ Decided(r)
        /\ reg[r].body # NoBody
        /\ ~reg[r].body.userId.isString
        /\ BadEmbedding(r)
        /\ reg[r].error.field = "userId"

----------------------------------------------------------------------------
(* Claims on the windows of the rate limiter, under SpecRateLimit *)

\* the entry of the called key before the latest call
EntryBefore == rlCalls.last.before[rlCalls.last.key]

\* C13: a call made when the key has no window, or at or after the stored
\* resetTime, starts a fresh window whatever the count was: the stored
\* count is 1, resetTime is the time of the call plus windowMs, and the
\* call returns allowed=true.
C13_FreshWindow ==
    (/\ rlCalls.last.made
     /\ ~EntryBefore.present \/ rlCalls.last.at >= EntryBefore.resetTime)
    => /\ rateLimitStore[rlCalls.last.key] =
              [present |-> TRUE, count |-> 1,
               resetTime |-> rlCalls.last.at + WindowMs]
       /\ rlCalls.last.result.allowed
       /\ rlCalls.last.result.resetTime = rlCalls.last.at + WindowMs

\* a call made exactly at the resetTime of an exhausted window has started
\* a fresh one
C13_Witness ==
    /\ rlCalls.last.made
    /\ EntryBefore.present
    /\ EntryBefore.count = MaxRequests
    /\ rlCalls.last.at = EntryBefore.resetTime
    /\ rateLimitStore[rlCalls.last.key].count = 1

\* C14: a call that returns allowed=false leaves the table as it was: the
\* count and the resetTime of the key, and every other entry, are the same
\* after the call as before it.
C14_RejectedCallChangesNothing ==
    (rlCalls.last.made /\ ~rlCalls.last.result.allowed)
    => /\ rateLimitStore = rlCalls.last.before
       /\ rateLimitStore[rlCalls.last.key].count <= MaxRequests

\* a call has been rejected on an exhausted window
C14_Witness ==
    /\ rlCalls.last.made
    /\ ~rlCalls.last.result.allowed
    /\ EntryBefore.count = MaxRequests
    /\ rlCalls.last.at < EntryBefore.resetTime

----------------------------------------------------------------------------
(* Claims on the quota of the register route, under SpecRegister *)

\* the step answers a request that had passed the rate limiter
AnswersCounted(r) == InFlight(r) /\ reg'[r].pc = "done"

\* C15: quota is never refunded.  In every step an entry of the table
\* stays, and while its window is the same (resetTime unchanged) its count
\* does not decrease; a new window replaces it only at or after its
\* resetTime; and a step that answers a counted request, with a rejection,
\* a storage failure or a success, leaves the table as it is.
C15_QuotaNeverRefunded ==
    [][ /\ \A key \in Keys :
              rateLimitStore[key].present =>
                  /\ rateLimitStore'[key].present
                  /\ rateLimitStore'[key].resetTime = rateLimitStore[key].resetTime
                        => rateLimitStore'[key].count >= rateLimitStore[key].count
                  /\ rateLimitStore'[key].resetTime # rateLimitStore[key].resetTime
                        => now >= rateLimitStore[key].resetTime
        /\ \A r \in RegSlots :
              AnswersCounted(r) => rateLimitStore' = rateLimitStore ]_vars

\* a counted request has been rejected after the limiter, or has failed in
\* storage, and the count of its key still includes it
C15_Witness ==
    \E r \in RegSlots :
        /\ Answered(r)
        /\ reg[r].counted
        /\ reg[r].error.thrown
        /\ reg[r].error.code \in {"VALIDATION_ERROR", "NOT_FOUND", ""}
        /\ rlCalls.last.result.allowed
        /\ rateLimitStore[reg[r].ip].count = rlCalls.win[reg[r].ip].allowed
        /\ rateLimitStore[reg[r].ip].count >= 2

\* C16: when the rate limiter rejects a request, the response the caller
\* receives carries the resetTime of the window, and that resetTime is
\* greater than the time at which the request was checked.
C16_ResetTimeReturned ==
    \A r \in RegSlots :
        (Answered(r) /\ reg[r].error.code = "RATE_LIMIT_EXCEEDED")
        => /\ reg[r].response.status = 429
           /\ reg[r].error.resetTime > rlCalls.last.at
           /\ reg[r].response.resetTime = Num(reg[r].error.resetTime)

----------------------------------------------------------------------------
(* Claims on the request classifier, under SpecGuard *)

\* the deny-list of the claim
DenyList ==
    { <<"b", "o", "t">>, <<"c", "r", "a", "w", "l", "e", "r">>,
      <<"s", "p", "i", "d", "e", "r">>, <<"s", "c", "r", "a", "p", "e", "r">>,
      <<"c", "u", "r", "l">>, <<"w", "g", "e", "t">> }

\* the text contains a word of the deny-list, letters compared without case
OnDenyList(text) ==
    LET lower == [i \in 1..Len(text) |-> ToLower(text[i])]
    IN  \E word \in DenyList :
            \E i \in 1..Len(text) :
                /\ i + Len(word) - 1 <= Len(text)
                /\ SubSeq(lower, i, i + Len(word) - 1) = word

Resolvable(ip) == ip # "" /\ ip # "unknown"

\* C17 as claimed: with a resolvable client identifier a request is
\* flagged if and only if its client-agent string is present and shorter
\* than 10 characters, or contains a word of the deny-list.
C17_FlaggedIffPresentShortOrListed ==
    (guardCall.made /\ Resolvable(guardCall.ip))
    => (guardCall.flagged <=>
           \/ Len(guardCall.userAgent) > 0 /\ Len(guardCall.userAgent) < 10
           \/ OnDenyList(guardCall.userAgent))

\* C17 as amended: with a resolvable client identifier a request is
\* flagged if and only if its client-agent string is missing or shorter
\* than 10 characters, or contains a word of the deny-list.
C17_FlaggedIffShortOrListed ==
    (guardCall.made /\ Resolvable(guardCall.ip))
    => (guardCall.flagged <=>
           \/ Len(guardCall.userAgent) < 10
           \/ OnDenyList(guardCall.userAgent))

\* an agent of 10 characters or more that holds a deny-list word in upper
\* case has been flagged
C17_Witness ==
    /\ guardCall.made
    /\ Resolvable(guardCall.ip)
    /\ Len(guardCall.userAgent) >= 10
    /\ OnDenyList(guardCall.userAgent)
    /\ \A word \in DenyList :
           \A i \in 1..Len(guardCall.userAgent) :
               i + Len(word) - 1 <= Len(guardCall.userAgent)
               => SubSeq(guardCall.userAgent, i, i + Len(word) - 1) # word
    /\ guardCall.flagged

\* C18: a request whose client identifier is empty or the literal
\* "unknown" is never flagged, whatever its client-agent string.
C18_UnresolvableNeverFlagged ==
    (guardCall.made /\ ~Resolvable(guardCall.ip)) => ~guardCall.flagged

\* calls with no client identifier and an agent that is missing, too
\* short or on the deny-list have been made
C18_Witness ==
    /\ guardCall.made
    /\ guardCall.ip = ""
    /\ Len(guardCall.userAgent) >= 10
    /\ OnDenyList(guardCall.userAgent)
    /\ ~guardCall.flagged

----------------------------------------------------------------------------
(* Claims on a second enrollment and on the stored embedding, under        *)
(* SpecRegister                                                            *)

\* C19: a request whose user already has a FaceData row when the store
\* answers its lookup is rejected with the conflict error and HTTP 409;
\* the step adds no row, and no step of the route changes or removes a
\* row that exists.
C19_SecondEnrollmentConflicts ==
    [][ /\ \A r \in RegSlots :
              (RegFindUnique(r, TRUE) /\ FaceDataOf(reg[r].userId) # {})
              => /\ reg'[r].pc = "done"
                 /\ reg'[r].error.code = "RESOURCE_ALREADY_EXISTS"
                 /\ reg'[r].response.status = 409
                 /\ ~reg'[r].response.success
                 /\ faceData' = faceData
        /\ Len(faceData') >= Len(faceData)
        /\ SubSeq(faceData', 1, Len(faceData)) = faceData ]_vars

\* a request for a user with one row has been answered with 409, and the
\* user still has that one row
C19_Witness ==
    \E r \in RegSlots :
        /\ Answered(r)
        /\ reg[r].response.status = 409
        /\ reg[r].faceId = 0
        /\ Cardinality(FaceDataOf(reg[r].body.userId.s)) = 1
        /\ Len(faceData) = 1

\* every element of the embedding text is a number, none is null
FiniteText(text) ==
    /\ text.json
    /\ \A i \in 1..Len(text.head) : text.head[i].t = "num"

\* C20: an embedding is accepted only if it is an array of exactly 234
\* finite numbers: every row the route stores holds 234 numbers, and a
\* request with any other embedding is rejected with the validation error
\* of the embedding.
C20_OnlyFiniteEmbeddingsStored ==
    /\ \A i \in 1..Len(faceData) :
           /\ faceData[i].embedding.length = EmbeddingLength
           /\ FiniteText(faceData[i].embedding)
    /\ \A r \in RegSlots :
           (/\ Answered(r)
            /\ reg[r].body # NoBody
            /\ ~BadUserId(r)
            /\ \/ ~reg[r].body.faceEmbedding.isArray
               \/ reg[r].body.faceEmbedding.length # EmbeddingLength
               \/ \E i \in 1..Len(reg[r].body.faceEmbedding.head) :
                      reg[r].body.faceEmbedding.head[i].t # "num")
           => /\ reg[r].error.code = "VALIDATION_ERROR"
              /\ reg[r].error.field = "faceEmbedding"
              /\ reg[r].faceId = 0

\* C21: a request whose quality is not a number in [0,1], or is below
\* 0.60, is rejected with the validation error of the field quality, the
\* message of a quality below the minimum names 60%, and no row is stored
\* for it; a quality of exactly 0.60 passes the gate.  (A quality q is
\* the integer 100 * q.)
C21_QualityGate ==
    /\ \A i \in 1..Len(faceData) :
           /\ faceData[i].quality.t = "num"
           /\ faceData[i].quality.v >= 60 /\ faceData[i].quality.v <= 100
    /\ \A r \in RegSlots :
           (Answered(r) /\ reg[r].body # NoBody
                /\ ~BadUserId(r) /\ ~BadEmbedding(r))
           => LET q == reg[r].body.quality
                  inRange == q.t = "num" /\ q.v >= 0 /\ q.v <= 100
              IN  /\ (~inRange \/ q.v < 60)
                        => /\ reg[r].error.code = "VALIDATION_ERROR"
                           /\ reg[r].error.field = "quality"
                           /\ reg[r].response.status = 400
                           /\ reg[r].faceId = 0
                  /\ (inRange /\ q.v < 60)
                        => reg[r].response.error = "quality below minimum 60%"
                  /\ q = Num(60)
                        => ~(reg[r].error.thrown /\ reg[r].error.field = "quality")

\* a request of quality exactly 0.60 has been enrolled
C21_Witness ==
    \E r \in RegSlots :
        /\ Answered(r)
        /\ reg[r].body.quality = Num(60)
        /\ reg[r].response.status = 200
        /\ reg[r].faceId # 0
        /\ faceData[reg[r].faceId].quality = Num(60)

----------------------------------------------------------------------------
(* Claims on the probe, under SpecAuthenticate *)

\* the probe of the request is a non-empty array of finite numbers
FiniteProbe(a) ==
    /\ auth[a].faceEmbedding.isArray
    /\ auth[a].faceEmbedding.length > 0
    /\ \A i \in 1..Len(auth[a].faceEmbedding.head) :
           auth[a].faceEmbedding.head[i].t = "num"

\* the request has read its body
ProbeRead(a) ==
    \/ auth[a].pc \in {"findMany", "emptyLog", "decisionLog"}
    \/ (auth[a].pc = "done" /\ auth[a].response.status \in {200, 400})

\* C22: a probe that is not a non-empty array of finite numbers is
\* rejected with the validation error (HTTP 400) before the gallery is
\* read, and is never compared with a stored embedding.
C22_OnlyFiniteProbesReachMatcher ==
    \A a \in AuthSlots :
        (ProbeRead(a) /\ ~FiniteProbe(a))
        => /\ auth[a].pc = "done"
           /\ auth[a].response.status = 400
           /\ auth[a].decided = "none"
           /\ auth[a].scanned = <<>>

----------------------------------------------------------------------------
(* Claims on the similarity function, under SpecSimilarity *)

\* C23: a call of calculateSimilarity with vectors of different lengths,
\* one of them empty included, raises an error: it returns no number, and
\* so never 0.
C23_UnequalLengthsThrow ==
    (simCall.made /\ simCall.features1.length # simCall.features2.length)
        => simCall.threw

\* a call with an empty and a non-empty vector has thrown
C23_Witness ==
    /\ simCall.made
    /\ simCall.features1.length = 0
    /\ simCall.features2.length = EmbeddingLength
    /\ simCall.threw

----------------------------------------------------------------------------
(* Claims on the detector's result, under SpecDetection *)

\* the factor of a check, in tenths: the penalty when the check triggers
Factor(triggers, penalty) == IF triggers THEN penalty ELSE 10

\* C24: the quality of a landmark set lies in [0, 1]; it is 0 when the
\* set is empty or lacks one of the landmarks 1, 33 and 362, and
\* otherwise 1.0 times 0.8 for a tilt above 0.05, 0.7 for a nose more than
\* 0.05 off the eye centre, 0.6 for a face width below 0.1 or above 0.5
\* and 0.8 for a mean depth beyond 0.1, and nothing else.
C24_QualityIsProductOfPenalties ==
    (detection.made /\ ~detection.isNull) =>
        LET l == detection.landmarks
            tilt == Abs(l.leftEye.y - l.rightEye.y) > 50
            offCentre == Abs(2 * l.nose.x - l.leftEye.x - l.rightEye.x) > 100
            faceWidth == Abs(l.leftEye.x - l.rightEye.x)
            badWidth == faceWidth < 100 \/ faceWidth > 500
            deep == Abs(SumZ(l)) > 100 * l.length
        IN  /\ detection.quality >= 0
            /\ detection.quality <= QualityOne
            /\ l.length < 363 => detection.quality = 0
            /\ l.length >= 363 =>
                  detection.quality * 10000 =
                      QualityOne * Factor(tilt, 8) * Factor(offCentre, 7)
                                 * Factor(badWidth, 6) * Factor(deep, 8)

\* a face tilted, turned, too wide and too deep has quality 0.2688
C24_Witness ==
    /\ detection.made /\ ~detection.isNull
    /\ detection.landmarks.length >= 363
    /\ Abs(detection.landmarks.leftEye.x - detection.landmarks.rightEye.x) > 500
    /\ detection.quality = 2688

\* the distinct indices of the key-point schema (face-detection.ts:235-262)
SchemaIndices == {keyPointIndices[i] : i \in 1..Len(keyPointIndices)}

\* C25: the feature vector of a set of n landmarks has 3 elements for
\* every distinct schema index smaller than n; from n = 467 on that is
\* 234, the length the enroll validator requires.
C25_FeatureLength ==
    (detection.made /\ ~detection.isNull) =>
        LET n == detection.landmarks.length
        IN  /\ detection.features = 3 * Cardinality({i \in SchemaIndices : i < n})
            /\ n >= 467 => detection.features = EmbeddingLength

\* a set of 467 landmarks has given 234 features, one of 466 has given 231
C25_Witness ==
    /\ detection.made /\ ~detection.isNull
    /\ detection.landmarks.length = 467
    /\ detection.features = EmbeddingLength

----------------------------------------------------------------------------
(* Claims on the rows an enroll request leaves, under SpecRegister *)

\* C26: an enroll request that ends in an error response has left the
\* gallery unchanged: a FaceData row is created only by a request that
\* returns success, also when the audit-log write after the insert fails.
C26_ErrorLeavesGalleryUnchanged ==
    \A r \in RegSlots :
        (Answered(r) /\ reg[r].response.status # 200) =>
            reg[r].faceId = 0

----------------------------------------------------------------------------
(* Claims on the audit record of a decision, under SpecAuthenticate *)

\* C27: a request that has returned a decision has written one audit
\* record, and the record agrees with the decision: its success is the
\* returned authenticated flag, its similarity the returned similarity,
\* and its userId is non-null exactly when the decision authenticated, in
\* which case it is the returned identity.
C27_AuditRecordAgrees ==
    \A a \in AuthSlots :
        Returned(a) =>
            /\ Cardinality(RecordsBy(a)) = 1
            /\ \A i \in RecordsBy(a) :
                  /\ authLog[i].success = auth[a].response.success
                  /\ authLog[i].similarity = auth[a].response.similarity
                  /\ authLog[i].userId # NoUser <=> auth[a].response.success
                  /\ auth[a].response.success =>
                        authLog[i].userId = auth[a].response.user

\* both outcomes of the scan's decision: an authenticated decision with
\* its record naming the identity
C27_Witness ==
    \E a \in AuthSlots :
        /\ Returned(a)
        /\ auth[a].response.success
        /\ \E i \in RecordsBy(a) : authLog[i].userId = auth[a].response.user

----------------------------------------------------------------------------
(* Claims on the users API, under SpecDeletion and SpecUsers *)

\* C28: once the deletion of a user has succeeded the gallery holds no
\* entry of that user, and no authenticate request that starts afterwards
\* returns that user's identity.
C28_DeletedIdentityNeverReturned ==
    /\ \A u \in deleted : FaceDataOf(u) = {}
    /\ \A a \in AuthSlots :
          Returned(a) => auth[a].response.user \notin auth[a].deletedAtStart

\* a user was deleted, and a request that started afterwards has scanned
\* what is left of the gallery and authenticated the other user
C28_Witness ==
    \E a \in AuthSlots :
        /\ Returned(a)
        /\ auth[a].decided = "scan"
        /\ auth[a].deletedAtStart # {}
        /\ auth[a].response.user # NoUser

\* C29: no two rows of User hold the same email, under concurrent creations
\* and updates with one email; the request whose write the unique index
\* refuses is answered 409 and has inserted no row.
C29_EmailsUnique ==
    /\ \A u, v \in users : u # v => userEmail[u] # userEmail[v]
    /\ \A s \in UsrSlots :
          usr[s].conflict =>
              /\ usr[s].pc = "done"
              /\ usr[s].response.status = 409
              /\ usr[s].created = NoUser

\* two creations with one email: one has inserted the row, the other was
\* refused by the index after its own lookup found the email free
C29_Witness ==
    \E s, t \in UsrSlots :
        /\ usr[s].op = "POST" /\ usr[s].response.status = 201
        /\ usr[t].op = "POST" /\ usr[t].conflict
        /\ usr[t].email = usr[s].email

----------------------------------------------------------------------------
(* Claims on the frame loop, under SpecCamera *)

\* the loops that will run processFrame again or are running it
Live == {i \in 1..Len(loops) : loops[i] \in {"scheduled", "sending"}}

\* C30: for one FaceDetector at most one frame-processing loop is live at
\* a time: a loop stops scheduling itself once stopCamera or dispose was
\* called, also when startCamera is called again before its pending
\* callback runs, and two calls of startCamera do not leave two loops.
C30_AtMostOneLiveLoop ==
    Cardinality(Live) <= 1

============================================================================
